---------------------------- MODULE Spec2Model ----------------------------
(***************************************************************************)
(* A model of zomboid_map_parser: the batch executor (BatchProcessor), the *)
(* search engine (SearchProcessor / MapProcessor / Parser) and the lot     *)
(* pack decoder (LotPackParser).                                           *)
(*                                                                         *)
(* The specifications of the module:                                       *)
(*   SpecBatch  - BatchProcessor.process_items over generic items whose    *)
(*                worker function may raise, return None or a value;       *)
(*   Spec       - Parser.parse_all / Parser.search_tiles over a maps       *)
(*                directory, sequential and parallel;                      *)
(*   SpecPack   - LotPackParser.parse over one pack file, one step per     *)
(*                iteration of the source's loops;                         *)
(*   SpecHeader - LotHeaderParser.parse over the bytes of one header file, *)
(*                one step per read;                                       *)
(*   SpecTdef   - TileDefParser.parse over the bytes of one .tiles file,   *)
(*                one step per tilesheet and per tile;                     *)
(*   SpecCoord  - callers of CoordinateConverter and of BoundsCoord;       *)
(*   SpecCell   - MapProcessor.parse_cell called repeatedly on one cell;   *)
(*   SpecStore  - TileProcessor over several .tiles files.                 *)
(* Each specification leaves the variables of the others at their idle     *)
(* values.                                                                 *)
(***************************************************************************)
EXTENDS Integers, Sequences, FiniteSets, Bags, TLC

VARIABLES
    \* ---- BatchProcessor (processing/parallel/batch_processor.py)
    config,           \* BatchProcessingConfig: max_workers, batch_size, retry_count
    items,            \* the list handed to process_items
    filter_on,        \* TRUE iff a filter_func was given
    processed_count,  \* self.processed_count
    failed_count,     \* self.failed_count
    current_batch,    \* self.current_batch
    gen,              \* where the process_items generator stands
    batch_start,      \* the loop variable of process_items
    futures,          \* the futures of the batch in _process_batch, in submission order
    results,          \* the local list `results` of _process_batch
    emitted,          \* the lists the consumer has received, in order
    submitted,        \* history: the items ever handed to executor.submit
    calls,            \* history: number of process_func invocations per item
    returned,         \* history: what the worker of each item finally produced
    \* ---- LotPackParser (parsers/lot_pack_parser.py)
    pk_file,          \* the pack file read (an index into PackFiles)
    tile_names,       \* self.tile_names, the name table of the companion header
    pk_pc,            \* where parse() stands
    pk_pos,           \* the read cursor of the file, in bytes
    chunk_offsets,    \* self.chunk_offsets
    current_chunk,    \* self.current_chunk
    chunk_idx,        \* the (cx, cy) loop of parse(), flattened x-major
    walk,             \* the (z, x, y) loop of _parse_chunk, flattened
    skip_count,       \* the local skip_count of _parse_chunk
    cell_data,        \* self.cell_data.squares
    pk_error,         \* the chunk named by the LotPackParserError raised, if any
    count_reads,      \* history: where each count field was read
    \* ---- Parser / SearchProcessor / MapProcessor / FileManager
    disk,             \* the *.lotheader files of the maps directory, in glob order
    _map_cells,       \* Parser._map_cells: the MapCell objects, in dict order
    request,          \* the arguments of the search_tiles call, None before it
    srch,             \* where the coordinator's caller stands
    seq_idx,          \* the place of the sequential loop in cells.values()
    opened,           \* history: the files the search has opened
    parsed,           \* history: parse_all was called
    \* ---- LotHeaderParser (parsers/lot_header_parser.py) over BinaryReader
    hd_file,          \* the header file read: its bytes and what they were written from
    hd_config,        \* LotHeaderParserConfig: strict_mode, max_tile_count
    hd_pc,            \* where parse() stands
    hd_pos,           \* the position of the file object
    bytes_read,       \* BinaryReader.bytes_read
    hd_version,       \* the local `version` of parse()
    hd_tile_count,    \* the local `tile_count` of parse()
    hd_tile_names,    \* the local `tile_names` of _read_tile_names
    hd_result,        \* the LotHeader returned, None before
    \* ---- TileDefParser (parsers/tile_def_parser.py)
    td_file,          \* the .tiles file read (an index into TdefFiles)
    td_stem,          \* the stem of its file name
    td_config,        \* TileDefParserConfig: legacy_id_mode
    _file_number,     \* self._file_number
    td_pc,            \* where parse() stands
    td_pos,           \* the position of the file object
    td_left,          \* iterations left of `for _ in range(num_tilesheets)`
    td_sheet,         \* the locals name, tilesheet_number, num_tiles of _parse_tilesheet
    tile_index,       \* the loop variable of _parse_tilesheet
    tile_definitions, \* self.tile_definitions
    tilesheets,       \* self.tilesheets: the tilesheet number stored under each name
    td_generated,     \* history: the sprite IDs generated, in order, and the cursor then
    \* ---- CoordinateConverter / BoundsCoord (utils/coordinates.py)
    co_mode,          \* what the caller does: "convert", "bounds", or "none"
    co_held,          \* the coordinates the caller has held, the current one last
    bd_bounds,        \* the BoundsCoord constructed, None before
    bd_raised,        \* TRUE iff the construction raised ValueError
    bd_asked,         \* the last call on BoundsCoord: its arguments and its result
    \* ---- MapProcessor.parse_cell on one cell (map_processor.py)
    mc_cell,          \* the MapCell: position, header, data
    mc_calls,         \* history: the calls of parse_cell, the cell before and after
    mc_pc,            \* "idle", "hung" inside a call, or "none"
    \* ---- TileProcessor (processing/processors/tile_processor.py)
    store_definitions, \* self.tile_definitions: sprite ID -> definition
    _processed_files, \* self._processed_files
    store_calls,      \* history: the calls, the store before each of them
    store_pc          \* "idle" or "none"

batchVars == <<config, items, filter_on, processed_count, failed_count,
               current_batch, gen, batch_start, futures, results, emitted,
               submitted, calls, returned>>

packVars == <<pk_file, tile_names, pk_pc, pk_pos, chunk_offsets, current_chunk,
              chunk_idx, walk, skip_count, cell_data, pk_error, count_reads>>

searchVars == <<disk, _map_cells, request, srch, seq_idx, opened, parsed>>

headerVars == <<hd_file, hd_config, hd_pc, hd_pos, bytes_read, hd_version,
                hd_tile_count, hd_tile_names, hd_result>>

tdefVars == <<td_file, td_stem, td_config, _file_number, td_pc, td_pos, td_left,
              td_sheet, tile_index, tile_definitions, tilesheets, td_generated>>

coordVars == <<co_mode, co_held, bd_bounds, bd_raised, bd_asked>>

cellVars == <<mc_cell, mc_calls, mc_pc>>

storeVars == <<store_definitions, _processed_files, store_calls, store_pc>>

vars == <<batchVars, packVars, searchVars, headerVars, tdefVars, coordVars, cellVars,
          storeVars>>

-----------------------------------------------------------------------------
(* Bounds of the generic executor runs *)
MaxItems == 3
MaxBatchSize == 2
MaxWorkers == 2
MaxRetry == 2

Min(a, b) == IF a < b THEN a ELSE b

RECURSIVE Flatten(_)
Flatten(ss) == IF ss = <<>> THEN <<>> ELSE Head(ss) \o Flatten(Tail(ss))

SeqToBag(s) ==
    LET vals == {s[i] : i \in DOMAIN s}
    IN  [v \in vals |-> Cardinality({i \in DOMAIN s : s[i] = v})]

-----------------------------------------------------------------------------
(* Results of a worker function: None, or a pair (item, payload). *)
NoneResult == [kind |-> "none"]
Value(item, payload) == [kind |-> "val", item |-> item, payload |-> payload]

\* `result is not None`
NotNone(result) == result.kind # "none"

\* the filter_func of the runs modelled: bool(result[1]), as the search engine passes
filter_func(result) == result.payload # <<>>

\* mutant of KeepResult: the filter is not applied
KeepResultNoFilter(result) == NotNone(result)

\* batch_processor.py:88-90: the test that keeps a result in the batch output
KeepResult(result) ==
    NotNone(result) /\ (~filter_on \/ filter_func(result))

\* mutant of BatchSlice: the slice runs one item into the next batch
BatchSliceOverlap(start) ==
    SubSeq(items, start + 1, Min(start + config.batch_size + 1, Len(items)))

\* batch_processor.py:62: items[batch_start:batch_start + batch_size]
BatchSlice(start) ==
    SubSeq(items, start + 1, Min(start + config.batch_size, Len(items)))

\* mutant of LastAttempt: one retry too many
LastAttemptLate(attempt) == attempt = config.retry_count

\* batch_processor.py:111: the attempt after which a failure is re-raised
LastAttempt(attempt) == attempt = config.retry_count - 1

\* a future whose worker has returned or raised
Completed(f) == f.state \in {"ok", "raised"}

Running == {i \in DOMAIN futures : futures[i].state = "running"}
Queued  == {i \in DOMAIN futures : futures[i].state = "queued"}

\* mutant of CanStart: the pool has a thread for every work item
CanStartNoLimit(i) ==
    /\ i \in Queued
    /\ \A j \in Queued : i <= j

\* ThreadPoolExecutor: a queued work item is taken in submission order by a free worker
CanStart(i) ==
    /\ i \in Queued
    /\ \A j \in Queued : i <= j
    /\ Cardinality(Running) < config.max_workers

\* mutant of AllCollected: the batch returns on its first collected future
SomeCollected == \E i \in DOMAIN futures : futures[i].collected

\* batch_processor.py:79-97: the with-block ends once every future was handed out by
\* as_completed
AllCollected == \A i \in DOMAIN futures : futures[i].collected

NewFuture(item) ==
    [item |-> item, state |-> "queued", stage |-> "call", attempt |-> 0,
     result |-> NoneResult, collected |-> FALSE]

-----------------------------------------------------------------------------
\* mutant of process_items_start: the counters are left as they are
ProcessItemsStartNoReset ==
    /\ gen = "new"
    /\ batch_start' = 0
    /\ gen' = "loop"
    /\ UNCHANGED <<config, items, filter_on, processed_count, failed_count,
                   current_batch, futures, results, emitted, submitted, calls, returned>>

(* process_items: the generator's first resumption resets the counters
   (batch_processor.py:55-58). *)
process_items_start ==
    /\ gen = "new"
    /\ processed_count' = 0
    /\ failed_count' = 0
    /\ current_batch' = 0
    /\ batch_start' = 0
    /\ gen' = "loop"
    /\ UNCHANGED <<config, items, filter_on, futures, results, emitted, submitted, calls, returned>>

(* batch_processor.py:60-62 and 78-83: the next batch is sliced and every item of
   it submitted to a new pool. *)
process_items_next_batch ==
    /\ gen = "loop"
    /\ batch_start < Len(items)
    /\ current_batch' = current_batch + 1
    /\ futures' = [i \in DOMAIN BatchSlice(batch_start) |->
                        NewFuture(BatchSlice(batch_start)[i])]
    /\ results' = <<>>
    /\ submitted' = submitted \cup
                        {BatchSlice(batch_start)[i] : i \in DOMAIN BatchSlice(batch_start)}
    /\ gen' = "batch"
    /\ UNCHANGED <<config, items, filter_on, processed_count, failed_count,
                   batch_start, emitted, calls, returned>>

(* batch_processor.py:60: range() is exhausted, the generator returns. *)
process_items_finish ==
    /\ gen = "loop"
    /\ batch_start >= Len(items)
    /\ gen' = "done"
    /\ UNCHANGED <<config, items, filter_on, processed_count, failed_count,
                   current_batch, batch_start, futures, results, emitted, submitted,
                   calls, returned>>

(* A pool thread takes the next queued work item. *)
worker_start(i) ==
    /\ gen = "batch"
    /\ CanStart(i)
    /\ futures' = [futures EXCEPT ![i].state = "running"]
    /\ UNCHANGED <<config, items, filter_on, processed_count, failed_count,
                   current_batch, gen, batch_start, results, emitted, submitted, calls, returned>>

\* _process_with_retry (batch_processor.py:101-116): what one attempt that ends in
\* `outcome` ("raise" or a result) does to the future
AfterAttempt(f, outcome) ==
    IF outcome.kind = "raise"
    THEN IF LastAttempt(f.attempt)
         THEN [f EXCEPT !.state = "raised"]
         ELSE [f EXCEPT !.attempt = f.attempt + 1, !.stage = "call"]
    ELSE [f EXCEPT !.state = "ok", !.result = outcome]

Raise == [kind |-> "raise"]

\* the worker of an item has not finished
Unset == [kind |-> "unset"]

\* what process_func may do with an item in the generic runs
Outcomes(item) == {Raise, NoneResult, Value(item, <<>>), Value(item, <<"hit">>)}

(* One invocation of process_func by _process_with_retry (generic worker). *)
worker_attempt(i) ==
    /\ gen = "batch"
    /\ i \in Running
    /\ \E outcome \in Outcomes(futures[i].item) :
          LET f == AfterAttempt(futures[i], outcome)
          IN  /\ futures' = [futures EXCEPT ![i] = f]
              /\ returned' = IF Completed(f)
                             THEN [returned EXCEPT ![f.item] = outcome]
                             ELSE returned
    /\ calls' = [calls EXCEPT ![futures[i].item] = @ + 1]
    /\ UNCHANGED <<config, items, filter_on, processed_count, failed_count,
                   current_batch, gen, batch_start, results, emitted, submitted>>

(* batch_processor.py:85-97: as_completed hands out one completed future. *)
collect(i) ==
    /\ gen = "batch"
    /\ i \in DOMAIN futures
    /\ Completed(futures[i])
    /\ ~futures[i].collected
    /\ futures' = [futures EXCEPT ![i].collected = TRUE]
    /\ IF futures[i].state = "ok"
       THEN /\ results' = IF KeepResult(futures[i].result)
                          THEN Append(results, futures[i].result)
                          ELSE results
            /\ processed_count' = processed_count + 1
            /\ UNCHANGED failed_count
       ELSE /\ failed_count' = failed_count + 1
            /\ UNCHANGED <<results, processed_count>>
    /\ UNCHANGED <<config, items, filter_on, current_batch, gen, batch_start,
                   emitted, submitted, calls, returned>>

(* batch_processor.py:64-66: _process_batch returns; a non-empty list is yielded
   and the generator is suspended. *)
process_items_yield ==
    /\ gen = "batch"
    /\ AllCollected
    /\ results # <<>>
    /\ emitted' = Append(emitted, results)
    /\ gen' = "yield"
    /\ UNCHANGED <<config, items, filter_on, processed_count, failed_count,
                   current_batch, batch_start, futures, results, submitted, calls, returned>>

(* batch_processor.py:65,68-69: an empty list is not yielded; the loop goes on. *)
process_items_skip_empty ==
    /\ gen = "batch"
    /\ AllCollected
    /\ results = <<>>
    /\ batch_start' = batch_start + config.batch_size
    /\ gen' = "loop"
    /\ UNCHANGED <<config, items, filter_on, processed_count, failed_count,
                   current_batch, futures, results, emitted, submitted, calls, returned>>

(* The consumer asks for the next list: the generator resumes after the yield. *)
consumer_next ==
    /\ gen = "yield"
    /\ batch_start' = batch_start + config.batch_size
    /\ gen' = "loop"
    /\ UNCHANGED <<config, items, filter_on, processed_count, failed_count,
                   current_batch, futures, results, emitted, submitted, calls, returned>>

(* The consumer stops iterating: the suspended generator is closed. *)
consumer_stop ==
    /\ gen = "yield"
    /\ gen' = "closed"
    /\ UNCHANGED <<config, items, filter_on, processed_count, failed_count,
                   current_batch, batch_start, futures, results, emitted, submitted,
                   calls, returned>>

-----------------------------------------------------------------------------
(* The lot pack decoder: parsers/lot_pack_parser.py over io/binary_reader.py.

   A file is a sequence of little-endian int32 words; the cursor pk_pos is a byte
   position, and the files modelled hold 4-aligned chunk offsets only.  A tile
   name is one of Names; str.lower() and the substring tests of the layer
   classification are tabulated over Names. *)

CELL_SIZE == 300
CHUNK_SIZE == 10
CHUNKS_PER_CELL == CELL_SIZE \div CHUNK_SIZE
Z_LEVELS == 8

ChunkCount == CHUNKS_PER_CELL * CHUNKS_PER_CELL
WalkLen == Z_LEVELS * CHUNK_SIZE * CHUNK_SIZE
\* the size in bytes of the chunk offset table: the count and a (pos, padding) pair
\* per chunk
TableBytes == 4 * (1 + 2 * ChunkCount)

Names == {"Floor_A", "floor_a", "WALL_B", "tree", "floorwall_01"}

\* str.lower()
Lower(name) ==
    CASE name = "Floor_A" -> "floor_a"
      [] name = "WALL_B" -> "wall_b"
      [] OTHER -> name

\* "wall" in name.lower(), "floor" in name.lower()
ContainsWall(name) == Lower(name) \in {"wall_b", "floorwall_01"}
ContainsFloor(name) == Lower(name) \in {"floor_a", "floorwall_01"}

NoChunk == <<>>
ChunkCoord(cx, cy) == <<cx, cy>>
\* mutant of ChunkAt: the cy loop is the outer one
ChunkAtYMajor(k) == ChunkCoord(k % CHUNKS_PER_CELL, k \div CHUNKS_PER_CELL)

\* the chunk visited by iteration k of the x-major (cx, cy) loops
ChunkAt(k) == ChunkCoord(k \div CHUNKS_PER_CELL, k % CHUNKS_PER_CELL)

LocalCellCoord(x, y, z) == <<x, y, z>>

\* the position visited by iteration w of the (z, x, y) loops of _parse_chunk
\* (lot_pack_parser.py:144-161)
PosInCell(chunk, w) ==
    LET z == w \div (CHUNK_SIZE * CHUNK_SIZE)
        x == (w \div CHUNK_SIZE) % CHUNK_SIZE
        y == w % CHUNK_SIZE
    IN  LocalCellCoord(chunk[1] * CHUNK_SIZE + x, chunk[2] * CHUNK_SIZE + y, z)

(* ---- the files ---- *)

\* a pack file: the offset table (`offs` maps a chunk's loop index to its byte
\* offset, 0 elsewhere) followed by `body`
MkPack(offs, body) ==
    [i \in 1..(1 + 2 * ChunkCount + Len(body)) |->
        IF i = 1 THEN ChunkCount
        ELSE IF i <= 1 + 2 * ChunkCount
             THEN IF i % 2 = 0 /\ ((i - 2) \div 2) \in DOMAIN offs
                  THEN offs[(i - 2) \div 2]
                  ELSE 0
             ELSE body[i - (1 + 2 * ChunkCount)]]

Zeros(n) == [i \in 1..n |-> 0]

\* a skip marker first, then count = 1 and a value 0
SkipThenOne == <<-1, 5, 1, 0>>

OnlyFirst == (0 :> TableBytes)
FirstTwo == (0 :> TableBytes) @@ (1 :> TableBytes + 8)

PackFiles == <<
    \* 1: chunk (0,0): skip 5, count 1, then the rest of the chunk skipped
    MkPack(OnlyFirst, SkipThenOne \o <<-1, WalkLen - 7>>),
    \* 2: chunk (0,0): skip 5, count 1, then empty positions to the end of the chunk
    MkPack(OnlyFirst, SkipThenOne \o Zeros(WalkLen - 7)),
    \* 3: chunk (0,0): skip 5, count 1, then a square with a room and a tile
    MkPack(OnlyFirst, SkipThenOne \o <<2, 7, 1, -1, WalkLen - 8>>),
    \* 4: chunk (0,0): room 7 and tile 0 on the first position
    MkPack(OnlyFirst, <<2, 7, 0, -1, WalkLen - 1>>),
    \* 5: chunk (0,0): room 7, tiles 1, 3, 0, 2 and a tile ID out of range
    MkPack(OnlyFirst, <<6, 7, 1, 3, 0, 2, 9, -1, WalkLen - 1>>),
    \* 6: chunk (0,0): the body ends inside the walk
    MkPack(OnlyFirst, <<-1, 5, 1>>),
    \* 7: chunk (0,0) asks to skip more than the chunk holds; chunk (0,1) follows
    MkPack(FirstTwo, <<-1, WalkLen + 100, 2, 7, 0, -1, WalkLen - 1>>),
    \* 8: chunk (1,2) points past the end of the file
    MkPack((CHUNKS_PER_CELL + 2) :> (TableBytes + 400), <<0, 0>>),
    \* 9: the offset table is cut short
    <<ChunkCount, TableBytes, 0, 0>>,
    \* 10: every chunk is empty
    MkPack(<<>>, <<>>),
    \* 11: chunk (2,3): a tile list that runs into the end of the file
    MkPack((2 * CHUNKS_PER_CELL + 3) :> TableBytes, <<-1, 12, 3, 7, 0>>),
    \* 12: chunk (0,0): room 7 and the tile IDs -3, 2, 1, then room 0 and tile 0
    MkPack(OnlyFirst, <<4, 7, -3, 2, 1, 2, 0, 0, -1, WalkLen - 2>>),
    \* 13: chunk (0,0): a skip of 1, room 7 and tile 0, a skip of 0, room 8 and tile 0
    MkPack(OnlyFirst, <<-1, 1, 2, 7, 0, -1, 0, 2, 8, 0, -1, WalkLen - 3>>)
>>

NameTables == { <<>>, <<"Floor_A">>, <<"tree", "WALL_B", "floor_a", "floorwall_01">> }

(* ---- BinaryReader.read_int32 (binary_reader.py:48-53) ---- *)

\* file.read(4) returns fewer than 4 bytes and struct.unpack raises
ShortRead(file, pos) == pos \div 4 + 1 > Len(file)

\* the int32 at byte position pos
Int32At(file, pos) == file[pos \div 4 + 1]

(* ---- CellData / GridSquare ---- *)

NoRoom == <<>>
GridSquare ==
    [floor_tiles |-> <<>>, wall_tiles |-> <<>>, object_tiles |-> <<>>,
     room_id |-> NoRoom]

\* CellData.get_square(position, create_if_not_exists=True) (cell.py:15-25)
get_square_create(squares, position) ==
    IF position \in DOMAIN squares
    THEN squares
    ELSE [p \in DOMAIN squares \cup {position} |->
             IF p = position THEN GridSquare ELSE squares[p]]

\* CellData.get_square(position) (cell.py:15-25): a transient empty square when absent
get_square(squares, position) ==
    IF position \in DOMAIN squares THEN squares[position] ELSE GridSquare

Tile(tile_id, name) == [tile_id |-> tile_id, texture_name |-> name]

\* mutant of TileRange: the single value after count = 1 is read as a tile ID
TileRangeFromZero(count) == IF count = 1 THEN 1 ELSE count - 1

\* lot_pack_parser.py:106: range(1, count), the number of tile IDs read
TileRange(count) == count - 1

\* mutant of add_tile: "floor" is tested before "wall"
AddTileFloorFirst(gs, names, tile_id) ==
    IF 0 <= tile_id /\ tile_id < Len(names)
    THEN LET name == names[tile_id + 1]
             tile == Tile(tile_id, name)
         IN  IF ContainsFloor(name)
             THEN [gs EXCEPT !.floor_tiles = Append(@, tile)]
             ELSE IF ContainsWall(name)
                  THEN [gs EXCEPT !.wall_tiles = Append(@, tile)]
                  ELSE [gs EXCEPT !.object_tiles = Append(@, tile)]
    ELSE gs

\* lot_pack_parser.py:110-125: one tile ID resolved and placed in its layer
add_tile(gs, names, tile_id) ==
    IF 0 <= tile_id /\ tile_id < Len(names)
    THEN LET name == names[tile_id + 1]
             tile == Tile(tile_id, name)
         IN  IF ContainsWall(name)
             THEN [gs EXCEPT !.wall_tiles = Append(@, tile)]
             ELSE IF ContainsFloor(name)
                  THEN [gs EXCEPT !.floor_tiles = Append(@, tile)]
                  ELSE [gs EXCEPT !.object_tiles = Append(@, tile)]
    ELSE gs

\* lot_pack_parser.py:106-125: the loop over the tile IDs of one position; stops
\* at a short read
RECURSIVE ReadTiles(_, _, _, _, _)
ReadTiles(file, names, n, pos, gs) ==
    IF n <= 0
    THEN [err |-> FALSE, pos |-> pos, gs |-> gs]
    ELSE IF ShortRead(file, pos)
         THEN [err |-> TRUE, pos |-> pos, gs |-> gs]
         ELSE ReadTiles(file, names, n - 1, pos + 4,
                        add_tile(gs, names, Int32At(file, pos)))

\* mutant of SkipResult: the marker's own position is not counted
SkipResultWhole(skip) == skip

\* lot_pack_parser.py:92: what a skip marker returns
SkipResult(skip) == skip - 1

\* lot_pack_parser.py:80-125: _read_tile_sequence at `position`, the cursor at pos.
\* err: a read fell short; res: the value returned (0 for None)
_read_tile_sequence(file, names, squares, position, pos) ==
    IF ShortRead(file, pos)
    THEN [err |-> TRUE, pos |-> pos, squares |-> squares, res |-> 0]
    ELSE
    LET count == Int32At(file, pos) IN
    IF count = -1
    THEN IF ShortRead(file, pos + 4)
         THEN [err |-> TRUE, pos |-> pos + 4, squares |-> squares, res |-> 0]
         ELSE [err |-> FALSE, pos |-> pos + 8, squares |-> squares,
               res |-> SkipResult(Int32At(file, pos + 4))]
    ELSE IF count <= 0
    THEN [err |-> FALSE, pos |-> pos + 4, squares |-> squares, res |-> 0]
    ELSE IF count > 1 /\ ShortRead(file, pos + 4)
    THEN [err |-> TRUE, pos |-> pos + 4, squares |-> squares, res |-> 0]
    ELSE
    LET after   == IF count > 1 THEN pos + 8 ELSE pos + 4
        created == get_square_create(squares, position)
        gs0     == IF count > 1
                   THEN [created[position] EXCEPT !.room_id = <<Int32At(file, pos + 4)>>]
                   ELSE created[position]
        rd      == ReadTiles(file, names, TileRange(count), after, gs0)
    IN  [err |-> rd.err, pos |-> rd.pos,
         squares |-> [created EXCEPT ![position] = rd.gs], res |-> 0]

\* lot_pack_parser.py:56-78: the table holds a count and a pair per chunk
TableShort(file) == Len(file) < 1 + 2 * ChunkCount

\* lot_pack_parser.py:76-78: the offsets recorded, by loop index of the chunk
TableOffsets(file) ==
    LET pos(k) == file[2 + 2 * k]
    IN  [k \in {j \in 0..(ChunkCount - 1) : pos(j) > 0} |-> pos(k)]

(* parse() calls _read_chunk_offsets (lot_pack_parser.py:56-78, 175-177). *)
_read_chunk_offsets ==
    /\ pk_pc = "offsets"
    /\ IF TableShort(PackFiles[pk_file])
       THEN /\ pk_pc' = "error"
            /\ pk_error' = current_chunk
            /\ pk_pos' = 4 * Len(PackFiles[pk_file])
            /\ UNCHANGED chunk_offsets
       ELSE /\ chunk_offsets' = TableOffsets(PackFiles[pk_file])
            /\ pk_pos' = TableBytes
            /\ pk_pc' = "chunks"
            /\ UNCHANGED pk_error
    /\ UNCHANGED <<pk_file, tile_names, current_chunk, chunk_idx, walk, skip_count,
                   cell_data, count_reads>>

\* mutant of _parse_chunk: the skip count is carried over from the chunk before
ParseChunkKeepSkip ==
    /\ pk_pc = "chunks"
    /\ chunk_idx < ChunkCount
    /\ current_chunk' = ChunkAt(chunk_idx)
    /\ IF chunk_idx \in DOMAIN chunk_offsets
       THEN /\ pk_pos' = chunk_offsets[chunk_idx]
            /\ walk' = 0
            /\ pk_pc' = "walk"
            /\ UNCHANGED <<chunk_idx, skip_count>>
       ELSE /\ chunk_idx' = chunk_idx + 1
            /\ UNCHANGED <<pk_pos, skip_count, walk, pk_pc>>
    /\ UNCHANGED <<pk_file, tile_names, chunk_offsets, cell_data, pk_error, count_reads>>

(* _parse_chunk up to its loops (lot_pack_parser.py:134-148): an empty chunk
   returns at once, another one seeks to its offset. *)
_parse_chunk ==
    /\ pk_pc = "chunks"
    /\ chunk_idx < ChunkCount
    /\ current_chunk' = ChunkAt(chunk_idx)
    /\ IF chunk_idx \in DOMAIN chunk_offsets
       THEN /\ pk_pos' = chunk_offsets[chunk_idx]
            /\ skip_count' = 0
            /\ walk' = 0
            /\ pk_pc' = "walk"
            /\ UNCHANGED chunk_idx
       ELSE /\ chunk_idx' = chunk_idx + 1
            /\ UNCHANGED <<pk_pos, skip_count, walk, pk_pc>>
    /\ UNCHANGED <<pk_file, tile_names, chunk_offsets, cell_data, pk_error, count_reads>>

\* the loops of _parse_chunk move on: to the next position, or out of the chunk
WalkOn ==
    IF walk + 1 < WalkLen
    THEN /\ walk' = walk + 1
         /\ UNCHANGED <<pk_pc, chunk_idx>>
    ELSE /\ walk' = 0
         /\ pk_pc' = "chunks"
         /\ chunk_idx' = chunk_idx + 1

(* One iteration of the loops of _parse_chunk with the skip count active
   (lot_pack_parser.py:153-155). *)
_parse_chunk_skip ==
    /\ pk_pc = "walk"
    /\ skip_count > 0
    /\ skip_count' = skip_count - 1
    /\ WalkOn
    /\ UNCHANGED <<pk_file, tile_names, pk_pos, chunk_offsets, current_chunk,
                   cell_data, pk_error, count_reads>>

(* One iteration of the loops of _parse_chunk that reads the position
   (lot_pack_parser.py:156-163); a short read ends parse() with
   LotPackParserError (lot_pack_parser.py:188-191). *)
_parse_chunk_read ==
    /\ pk_pc = "walk"
    /\ skip_count <= 0
    /\ LET r == _read_tile_sequence(PackFiles[pk_file], tile_names, cell_data,
                                    PosInCell(current_chunk, walk), pk_pos)
       IN  /\ pk_pos' = r.pos
           /\ cell_data' = r.squares
           /\ count_reads' = count_reads \cup
                  {[chunk |-> current_chunk, walk |-> walk, pos |-> pk_pos]}
           /\ IF r.err
              THEN /\ pk_pc' = "error"
                   /\ pk_error' = current_chunk
                   /\ UNCHANGED <<walk, skip_count, chunk_idx>>
              ELSE /\ skip_count' = r.res
                   /\ WalkOn
                   /\ UNCHANGED pk_error
    /\ UNCHANGED <<pk_file, tile_names, chunk_offsets, current_chunk>>

(* parse() returns self.cell_data (lot_pack_parser.py:185-186). *)
parse_return ==
    /\ pk_pc = "chunks"
    /\ chunk_idx = ChunkCount
    /\ pk_pc' = "done"
    /\ UNCHANGED <<pk_file, tile_names, pk_pos, chunk_offsets, current_chunk,
                   chunk_idx, walk, skip_count, cell_data, pk_error, count_reads>>

\* no pack is being decoded
PackIdle ==
    /\ pk_file = 0
    /\ tile_names = <<>>
    /\ pk_pc = "idle"
    /\ pk_pos = 0
    /\ chunk_offsets = <<>>
    /\ current_chunk = NoChunk
    /\ chunk_idx = 0
    /\ walk = 0
    /\ skip_count = 0
    /\ cell_data = <<>>
    /\ pk_error = NoChunk
    /\ count_reads = {}

-----------------------------------------------------------------------------
(* The search engine: io/file_manager.py, processing/processors/map_processor.py,
   processing/processors/search_processor.py and processing/core/parser.py.

   A header file is described by what LotHeaderParser.parse does with it: it
   returns a name table ("ok"), raises ("corrupt"), or never returns because
   read_string loops at the end of a file that stops inside a name
   ("unterminated").  A pack file is described by what LotPackParser.parse does
   with it: it returns the squares it placed ("ok") or raises ("corrupt"). *)

SEARCH_BATCH_SIZE == 4
SEARCH_RETRY_COUNT == 3

None == <<>>
Some(v) == <<v>>

HeaderOk(names) == [kind |-> "ok", names |-> names]
HeaderCorrupt == [kind |-> "corrupt", names |-> <<>>]
HeaderUnterminated == [kind |-> "unterminated", names |-> <<>>]

\* a position of a pack with the tile IDs stored for it
Placed(pos, ids) == [pos |-> pos, ids |-> ids]
PackOk(placed) == [kind |-> "ok", placed |-> placed]
PackCorrupt == [kind |-> "corrupt", placed |-> <<>>]

\* a <stem>.lotheader file of the maps directory with its world_<stem>.lotpack
DirEntry(stem, has_pack, header, pack) ==
    [stem |-> stem, has_pack |-> has_pack, header |-> header, pack |-> pack]

\* a stem that is not <int>_<int>
BadStem == <<>>

\* the file pairs a cell may consist of
BothMatch ==
    [header |-> HeaderOk(<<"Floor_A", "tree">>),
     pack |-> PackOk(<<Placed(LocalCellCoord(299, 0, 7), <<1>>),
                       Placed(LocalCellCoord(0, 5, 0), <<0, 0>>)>>)]
WallOnly ==
    [header |-> HeaderOk(<<"WALL_B">>),
     pack |-> PackOk(<<Placed(LocalCellCoord(10, 10, 1), <<0, 5>>)>>)]
BadHeader ==
    [header |-> HeaderCorrupt,
     pack |-> PackOk(<<Placed(LocalCellCoord(0, 0, 0), <<0>>)>>)]
BadPack ==
    [header |-> HeaderOk(<<"floor_a", "tree">>), pack |-> PackCorrupt]
NamedNotPlaced ==
    [header |-> HeaderOk(<<"Floor_A", "WALL_B", "floorwall_01">>),
     pack |-> PackOk(<<Placed(LocalCellCoord(1, 1, 0), <<2>>)>>)]
EndsInName ==
    [header |-> HeaderUnterminated, pack |-> PackOk(<<>>)]

\* the directories searched: five header files, each with one of two or three
\* shapes, or no file at all
CellStems == <<<<0, 0>>, <<1, 0>>, <<2, 1>>, <<3, 1>>, <<-1, 0>>>>

EntryChoices(i) ==
    CASE i = 1 -> {DirEntry(CellStems[1], TRUE, BothMatch.header, BothMatch.pack),
                   DirEntry(CellStems[1], TRUE, BadHeader.header, BadHeader.pack)}
      [] i = 2 -> {DirEntry(CellStems[2], TRUE, WallOnly.header, WallOnly.pack),
                   DirEntry(CellStems[2], TRUE, BadPack.header, BadPack.pack)}
      [] i = 3 -> {DirEntry(CellStems[3], TRUE, NamedNotPlaced.header, NamedNotPlaced.pack),
                   DirEntry(CellStems[3], FALSE, BothMatch.header, BothMatch.pack),
                   DirEntry(BadStem, TRUE, BothMatch.header, BothMatch.pack)}
      [] i = 4 -> {DirEntry(CellStems[4], TRUE, BothMatch.header, BothMatch.pack),
                   DirEntry(CellStems[4], TRUE, EndsInName.header, EndsInName.pack)}
      [] OTHER -> {DirEntry(CellStems[5], TRUE, WallOnly.header, WallOnly.pack),
                   DirEntry(CellStems[5], TRUE, BadHeader.header, BadHeader.pack),
                   DirEntry(CellStems[5], TRUE, BadPack.header, BadPack.pack)}

Directories ==
    {<<>>} \cup
    {<<e1, e2, e3, e4, e5>> : e1 \in EntryChoices(1), e2 \in EntryChoices(2),
                               e3 \in EntryChoices(3), e4 \in EntryChoices(4),
                               e5 \in EntryChoices(5)}

\* the queries
Queries == {<<"Floor_A">>, <<"tree", "WALL_B">>}

(* ---- BoundsCoord (utils/coordinates.py:23-71) ---- *)

BoundsCoord(min_x, max_x, min_y, max_y) ==
    [min_x |-> min_x, max_x |-> max_x, min_y |-> min_y, max_y |-> max_y]

Unbounded == BoundsCoord(None, None, None, None)

\* mutant of contains: the upper sides are exclusive
ContainsExclusiveMax(bounds, coord) ==
    /\ ~(bounds.min_x # None /\ coord[1] < bounds.min_x[1])
    /\ ~(bounds.max_x # None /\ coord[1] >= bounds.max_x[1])
    /\ ~(bounds.min_y # None /\ coord[2] < bounds.min_y[1])
    /\ ~(bounds.max_y # None /\ coord[2] >= bounds.max_y[1])

\* coordinates.py:53-71
contains(bounds, coord) ==
    /\ ~(bounds.min_x # None /\ coord[1] < bounds.min_x[1])
    /\ ~(bounds.max_x # None /\ coord[1] > bounds.max_x[1])
    /\ ~(bounds.min_y # None /\ coord[2] < bounds.min_y[1])
    /\ ~(bounds.max_y # None /\ coord[2] > bounds.max_y[1])

\* the bounds handed to parse_all and search_tiles: None, or a BoundsCoord
BoundsChoices == {None, Some(Unbounded), Some(BoundsCoord(Some(0), None, None, Some(0)))}

(* ---- FileManager.find_map_cells (file_manager.py:32-71) ---- *)

MapCell(position, entry) ==
    [position |-> position, entry |-> entry, header |-> None, data |-> None]

\* file_manager.py:44-69: whether the directory entry yields a cell
Discovered(dir, k, bounds) ==
    /\ dir[k].stem # BadStem
    /\ contains(bounds, dir[k].stem)
    /\ dir[k].has_pack

\* the cells found, in directory order
RECURSIVE FindFrom(_, _, _)
FindFrom(dir, k, bounds) ==
    IF k > Len(dir) THEN <<>>
    ELSE IF Discovered(dir, k, bounds)
         THEN <<MapCell(dir[k].stem, k)>> \o FindFrom(dir, k + 1, bounds)
         ELSE FindFrom(dir, k + 1, bounds)

find_map_cells(dir, bounds) == FindFrom(dir, 1, bounds)

(* ---- MapProcessor (map_processor.py) ---- *)

\* map_processor.py:119-136: the header, or None when the decoder raised
_parse_header(file) ==
    IF file.kind = "ok" THEN Some([tile_names |-> file.names]) ELSE None

\* LotHeaderParser.parse never returns for this file
HeaderHangs(file) == file.kind = "unterminated"

\* lot_pack_parser.py:106-125 over the tile IDs stored for one position
RECURSIVE AddTiles(_, _, _)
AddTiles(ids, names, gs) ==
    IF ids = <<>> THEN gs
    ELSE AddTiles(Tail(ids), names, add_tile(gs, names, Head(ids)))

\* the squares LotPackParser.parse builds from the positions of a pack
RECURSIVE PlaceAll(_, _, _)
PlaceAll(placed, names, squares) ==
    IF placed = <<>> THEN squares
    ELSE LET p  == Head(placed)
             sq == get_square_create(squares, p.pos)
         IN  PlaceAll(Tail(placed), names,
                      [sq EXCEPT ![p.pos] = AddTiles(p.ids, names, @)])

\* map_processor.py:138-156: the cell data, or None when the decoder raised
_parse_pack(file, names) ==
    IF file.kind = "ok" THEN Some(PlaceAll(file.placed, names, <<>>)) ELSE None

\* the order of the scan loops of map_processor.py:98-100: z outer, x, y inner
ScanKey(pos) == pos[3] * CELL_SIZE * CELL_SIZE + pos[1] * CELL_SIZE + pos[2]

\* map_processor.py:103-106: the hits of one square, floor, wall, object
RECURSIVE HitsIn(_, _, _)
HitsIn(tiles, pos, names_lower) ==
    IF tiles = <<>> THEN <<>>
    ELSE (IF \E k \in DOMAIN names_lower :
                 Lower(Head(tiles).texture_name) = names_lower[k]
          THEN <<<<pos, Head(tiles).texture_name>>>>
          ELSE <<>>) \o HitsIn(Tail(tiles), pos, names_lower)

\* map_processor.py:97-108: the scan of the squares in loop order
RECURSIVE ScanFrom(_, _, _)
ScanFrom(squares, todo, names_lower) ==
    IF todo = {} THEN <<>>
    ELSE LET pos == CHOOSE p \in todo : \A q \in todo : ScanKey(p) <= ScanKey(q)
             gs  == get_square(squares, pos)
         IN  HitsIn(gs.floor_tiles \o gs.wall_tiles \o gs.object_tiles, pos, names_lower)
                \o ScanFrom(squares, todo \ {pos}, names_lower)

Scan(squares, names_lower) ==
    ScanFrom(squares,
             {p \in DOMAIN squares : /\ p[1] \in 0..(CELL_SIZE - 1)
                                     /\ p[2] \in 0..(CELL_SIZE - 1)
                                     /\ p[3] \in 0..(Z_LEVELS - 1)},
             names_lower)

\* search_processor.py:48,80: [name.lower() for name in tile_names]
LowerAll(names) == [k \in DOMAIN names |-> Lower(names[k])]

\* mutant of HeaderMatches: the header never prunes
HeaderMatchesAlways(header, names_lower) == TRUE

\* map_processor.py:86-87: any(name in header_names_lower for name in tile_names_lower)
HeaderMatches(header, names_lower) ==
    \E k \in DOMAIN names_lower :
        names_lower[k] \in {Lower(header.tile_names[j]) : j \in DOMAIN header.tile_names}

\* mutant of Release: the fields are kept
ReleaseNothing(cell) == cell

\* map_processor.py:115-117: the finally clause of process_cell_for_search
Release(cell) == [cell EXCEPT !.header = None, !.data = None]

\* map_processor.py:79-89: process_cell_for_search up to the decision about the
\* pack: "hang" inside the header decoder, "return" with the empty list, or "pack"
HeaderStage(file, names_lower) ==
    IF HeaderHangs(file) THEN "hang"
    ELSE LET header == _parse_header(file)
         IN  IF header = None THEN "return"
             ELSE IF ~HeaderMatches(header[1], names_lower) THEN "return"
             ELSE "pack"

\* map_processor.py:91-108: process_cell_for_search from the pack on: the list
\* returned
PackStage(hfile, pfile, names_lower) ==
    LET header    == _parse_header(hfile)
        data   == _parse_pack(pfile, header[1].tile_names)
    IN  IF data = None THEN <<>>
        ELSE Scan(data[1], names_lower)

\* mutant of parse_cell: the header is attached as soon as it is decoded
ParseCellHeaderFirst(dir, cell) ==
    LET header == _parse_header(dir[cell.entry].header) IN
    IF header = None THEN cell
    ELSE LET data == _parse_pack(dir[cell.entry].pack, header[1].tile_names)
         IN  IF data = None THEN [cell EXCEPT !.header = header]
             ELSE [cell EXCEPT !.header = header, !.data = data]

\* map_processor.py:31-62: parse_cell
parse_cell(dir, cell) ==
    LET header == _parse_header(dir[cell.entry].header) IN
    IF header = None THEN cell
    ELSE LET data == _parse_pack(dir[cell.entry].pack, header[1].tile_names)
         IN  IF data = None THEN cell
             ELSE [cell EXCEPT !.header = header, !.data = data]

\* search_processor.py:57: `if found_locations:`
Found(found_locations) == found_locations # <<>>

(* ---- Parser and SearchProcessor ---- *)

\* search_processor.py:48,80
tile_names_lower == LowerAll(request[1].tile_names)

\* the file `file` ("header" or "pack") of the cell at `position` was opened
OpenOf(file, position) == [file |-> file, cell |-> position]

\* the place of a cell in dict order
CellIndex(position) == CHOOSE k \in DOMAIN _map_cells : _map_cells[k].position = position

\* parser.py:183-193: parse_cell on every cell before the first one whose header
\* decoder never returns
_process_map_cells(cells) ==
    [k \in DOMAIN cells |->
        IF \E h \in 1..k : HeaderHangs(disk[cells[h].entry].header)
        THEN cells[k]
        ELSE parse_cell(disk, cells[k])]

(* Parser.parse_all (parser.py:52-90), the tile definition files left aside. *)
parse_all(bounds) ==
    /\ srch = "idle"
    /\ request = None
    /\ ~parsed
    /\ LET found == find_map_cells(disk, IF bounds = None THEN Unbounded ELSE bounds[1])
       IN  /\ _map_cells' = _process_map_cells(found)
           /\ srch' = IF \E k \in DOMAIN found : HeaderHangs(disk[found[k].entry].header)
                      THEN "hung"
                      ELSE "idle"
    /\ parsed' = TRUE
    /\ UNCHANGED <<disk, request, seq_idx, opened>>
    /\ UNCHANGED batchVars

(* Parser.search_tiles up to the first cell (parser.py:117-131,
   search_processor.py:48-50 and 80-96): the cell map is replaced only when bounds
   are given; the parallel search hands list(cells.values()) to process_items. *)
search_tiles(tile_names_arg, parallel, bounds) ==
    /\ srch = "idle"
    /\ request = None
    /\ request' = Some([tile_names |-> tile_names_arg, parallel |-> parallel,
                        bounds |-> bounds])
    /\ _map_cells' = IF bounds # None THEN find_map_cells(disk, bounds[1]) ELSE _map_cells
    /\ opened' = {}
    /\ emitted' = <<>>
    /\ IF parallel
       THEN /\ srch' = "parallel"
            /\ gen' = "new"
            /\ items' = [k \in DOMAIN _map_cells' |-> _map_cells'[k].position]
            /\ filter_on' = TRUE
            /\ calls' = [p \in {_map_cells'[k].position : k \in DOMAIN _map_cells'} |-> 0]
            /\ returned' = [p \in {_map_cells'[k].position : k \in DOMAIN _map_cells'} |-> Unset]
            /\ submitted' = {}
            /\ UNCHANGED seq_idx
       ELSE /\ srch' = "cell"
            /\ seq_idx' = 1
            /\ UNCHANGED <<gen, items, filter_on, calls, returned, submitted>>
    /\ UNCHANGED <<disk, parsed>>
    /\ UNCHANGED <<config, processed_count, failed_count, current_batch, batch_start,
                   futures, results>>

\* search_processor.py:57-58 and 50: a non-empty list is yielded, otherwise the loop
\* takes the next cell
SeqAfter(position, found_locations) ==
    IF Found(found_locations)
    THEN /\ emitted' = Append(emitted, Value(position, found_locations))
         /\ srch' = "yield"
         /\ UNCHANGED seq_idx
    ELSE /\ seq_idx' = seq_idx + 1
         /\ srch' = "cell"
         /\ UNCHANGED emitted

(* Sequential search: process_cell_for_search on the next cell up to the decision
   about its pack (search_processor.py:50-58, map_processor.py:79-89, 115-117). *)
search_cell_header ==
    /\ srch = "cell"
    /\ seq_idx <= Len(_map_cells)
    /\ LET cell  == _map_cells[seq_idx]
           stage == HeaderStage(disk[cell.entry].header, tile_names_lower)
       IN  /\ opened' = opened \cup {OpenOf("header", cell.position)}
           /\ CASE stage = "hang" ->
                     /\ srch' = "hung"
                     /\ UNCHANGED <<_map_cells, seq_idx, emitted>>
                [] stage = "pack" ->
                     /\ srch' = "pack"
                     /\ UNCHANGED <<_map_cells, seq_idx, emitted>>
                [] OTHER ->
                     /\ _map_cells' = [_map_cells EXCEPT ![seq_idx] = Release(@)]
                     /\ SeqAfter(cell.position, <<>>)
    /\ UNCHANGED <<disk, request, parsed>>
    /\ UNCHANGED <<config, items, filter_on, processed_count, failed_count,
                   current_batch, gen, batch_start, futures, results, submitted,
                   calls, returned>>

(* Sequential search: the pack of the cell is decoded and scanned
   (map_processor.py:91-108, 115-117; search_processor.py:57-58). *)
search_cell_pack ==
    /\ srch = "pack"
    /\ LET cell == _map_cells[seq_idx]
       IN  /\ opened' = opened \cup {OpenOf("pack", cell.position)}
           /\ _map_cells' = [_map_cells EXCEPT ![seq_idx] = Release(@)]
           /\ SeqAfter(cell.position,
                       PackStage(disk[cell.entry].header, disk[cell.entry].pack,
                                 tile_names_lower))
    /\ UNCHANGED <<disk, request, parsed>>
    /\ UNCHANGED <<config, items, filter_on, processed_count, failed_count,
                   current_batch, gen, batch_start, futures, results, submitted,
                   calls, returned>>

(* Sequential search: the consumer asks for the next pair. *)
search_resume ==
    /\ srch = "yield"
    /\ seq_idx' = seq_idx + 1
    /\ srch' = "cell"
    /\ UNCHANGED <<disk, _map_cells, request, opened, parsed>>
    /\ UNCHANGED batchVars

(* Sequential search: the consumer stops iterating. *)
search_stop ==
    /\ srch = "yield"
    /\ srch' = "closed"
    /\ UNCHANGED <<disk, _map_cells, request, seq_idx, opened, parsed>>
    /\ UNCHANGED batchVars

(* Sequential search: cells.values() is exhausted (search_processor.py:50). *)
search_return ==
    /\ srch = "cell"
    /\ seq_idx > Len(_map_cells)
    /\ srch' = "done"
    /\ UNCHANGED <<disk, _map_cells, request, seq_idx, opened, parsed>>
    /\ UNCHANGED batchVars

\* the worker of future i returns `outcome` to _process_with_retry
Returns(i, outcome) ==
    /\ futures' = [futures EXCEPT ![i] = AfterAttempt(@, outcome)]
    /\ returned' = [returned EXCEPT ![futures[i].item] = outcome]

(* Parallel search: process_cell on a pool thread up to the decision about the pack
   (search_processor.py:82-90, map_processor.py:79-89, 115-117). *)
process_cell_header(i) ==
    /\ srch = "parallel"
    /\ gen = "batch"
    /\ i \in Running
    /\ futures[i].stage = "call"
    /\ LET cell  == _map_cells[CellIndex(futures[i].item)]
           stage == HeaderStage(disk[cell.entry].header, tile_names_lower)
       IN  /\ opened' = opened \cup {OpenOf("header", cell.position)}
           /\ calls' = [calls EXCEPT ![cell.position] = @ + 1]
           /\ CASE stage = "hang" ->
                     /\ futures' = [futures EXCEPT ![i].stage = "hung"]
                     /\ UNCHANGED <<_map_cells, returned>>
                [] stage = "pack" ->
                     /\ futures' = [futures EXCEPT ![i].stage = "pack"]
                     /\ UNCHANGED <<_map_cells, returned>>
                [] OTHER ->
                     /\ _map_cells' = [_map_cells EXCEPT
                                          ![CellIndex(cell.position)] = Release(@)]
                     /\ Returns(i, Value(cell.position, <<>>))
    /\ UNCHANGED <<disk, request, srch, seq_idx, parsed>>
    /\ UNCHANGED <<config, items, filter_on, processed_count, failed_count,
                   current_batch, gen, batch_start, results, emitted, submitted>>

\* mutant of process_cell_pack: an error of the pack decoder leaves the worker
ProcessCellPackRaises(i) ==
    /\ srch = "parallel"
    /\ gen = "batch"
    /\ i \in Running
    /\ futures[i].stage = "pack"
    /\ LET cell == _map_cells[CellIndex(futures[i].item)]
       IN  /\ opened' = opened \cup {OpenOf("pack", cell.position)}
           /\ _map_cells' = [_map_cells EXCEPT ![CellIndex(cell.position)] = Release(@)]
           /\ IF disk[cell.entry].pack.kind = "corrupt"
              THEN Returns(i, Raise)
              ELSE Returns(i, Value(cell.position,
                                    PackStage(disk[cell.entry].header,
                                              disk[cell.entry].pack, tile_names_lower)))
    /\ UNCHANGED <<disk, request, srch, seq_idx, parsed>>
    /\ UNCHANGED <<config, items, filter_on, processed_count, failed_count,
                   current_batch, gen, batch_start, results, emitted, submitted, calls>>

(* Parallel search: the pool thread decodes and scans the pack and returns
   (cell, found_locations) (map_processor.py:91-108, 115-117;
   search_processor.py:90). *)
process_cell_pack(i) ==
    /\ srch = "parallel"
    /\ gen = "batch"
    /\ i \in Running
    /\ futures[i].stage = "pack"
    /\ LET cell == _map_cells[CellIndex(futures[i].item)]
       IN  /\ opened' = opened \cup {OpenOf("pack", cell.position)}
           /\ _map_cells' = [_map_cells EXCEPT ![CellIndex(cell.position)] = Release(@)]
           /\ Returns(i, Value(cell.position,
                               PackStage(disk[cell.entry].header, disk[cell.entry].pack,
                                         tile_names_lower)))
    /\ UNCHANGED <<disk, request, srch, seq_idx, parsed>>
    /\ UNCHANGED <<config, items, filter_on, processed_count, failed_count,
                   current_batch, gen, batch_start, results, emitted, submitted, calls>>

\* no coordinator exists
SearchIdle ==
    /\ disk = <<>>
    /\ _map_cells = <<>>
    /\ request = None
    /\ srch = "none"
    /\ seq_idx = 0
    /\ opened = {}
    /\ parsed = FALSE

-----------------------------------------------------------------------------
(* The lot header decoder: parsers/lot_header_parser.py over the byte stream of
   io/binary_reader.py.  A file is a sequence of bytes; a decoded string is the
   sequence of the code points of its characters. *)

DEFAULT_MAX_TILE_COUNT == 100000
NEWLINE == 10

(* ---- the files ---- *)

\* struct.pack('<i', v): the four bytes of a little-endian int32
pack_i(v) ==
    <<v % 256, (v \div 256) % 256, (v \div 65536) % 256, (v \div 16777216) % 256>>

\* the UTF-8 bytes of one character: one byte below U+0080, two below U+0800
Utf8Char(cp) ==
    IF cp < 128 THEN <<cp>> ELSE <<192 + (cp \div 64), 128 + (cp % 64)>>

\* str.encode('utf-8')
RECURSIVE Utf8(_)
Utf8(name) == IF name = <<>> THEN <<>> ELSE Utf8Char(Head(name)) \o Utf8(Tail(name))

\* the name table: every name followed by a newline
RECURSIVE NameTableBytes(_)
NameTableBytes(names) ==
    IF names = <<>> THEN <<>>
    ELSE Utf8(Head(names)) \o <<NEWLINE>> \o NameTableBytes(Tail(names))

\* a header file written from a version, a count and a list of names, of which only
\* the first `keep` bytes reached the disk
HeaderFile(version, tile_count, names, keep) ==
    LET whole == pack_i(version) \o pack_i(tile_count) \o NameTableBytes(names)
    IN  [version |-> version, tile_count |-> tile_count, names |-> names,
         bytes |-> SubSeq(whole, 1, Min(keep, Len(whole)))]

\* the names written: "fl", "w", "a\r", U+00E9 and the empty name
HeaderNames == {<<102, 108>>, <<119>>, <<97, 13>>, <<233>>, <<>>}

HeaderNameTables ==
    {<<>>} \cup {<<n>> : n \in HeaderNames}
           \cup {<<n, m>> : n \in HeaderNames, m \in HeaderNames}

\* a file longer than any written here
WholeFile == 64

HeaderFiles ==
    {HeaderFile(v, c, names, keep) :
        v \in {1, -2},
        c \in {-1, 0, 1, 2, 3, DEFAULT_MAX_TILE_COUNT, DEFAULT_MAX_TILE_COUNT + 1},
        names \in HeaderNameTables,
        keep \in {3, 6, 9, WholeFile}}

HeaderConfigs ==
    {[strict_mode |-> s, max_tile_count |-> m] :
        s \in BOOLEAN, m \in {1, DEFAULT_MAX_TILE_COUNT}}

(* ---- BinaryReader over bytes (binary_reader.py) ---- *)

\* struct.unpack('<i', data)[0] of four bytes
unpack_i(data) ==
    data[1] + 256 * data[2] + 65536 * data[3]
        + 16777216 * (IF data[4] >= 128 THEN data[4] - 256 ELSE data[4])

\* binary_reader.py:48-53 at file position pos: the value, or a raise of
\* struct.error when file.read(4) returns fewer than four bytes; either way the
\* file position moves over what was read
read_int32(bytes, pos) ==
    IF pos + 4 > Len(bytes)
    THEN [kind |-> "raise", value |-> 0, pos |-> Len(bytes)]
    ELSE [kind |-> "ok", value |-> unpack_i(SubSeq(bytes, pos + 1, pos + 4)),
          pos |-> pos + 4]

\* binary_reader.py:83: bytes([byte]).decode('utf-8') raises UnicodeDecodeError for
\* a byte that is not a whole UTF-8 sequence
DecodeRaises(byte) == byte >= 128

\* binary_reader.py:76-88 from file position pos with `result` collected so far:
\* the string and the position after its newline ("ok"), UnicodeDecodeError
\* ("raise"), or no return at all ("hang": at the end of the file read(1) gives
\* b'', which decodes to '' and never equals '\n')
RECURSIVE ReadStringFrom(_, _, _, _)
ReadStringFrom(bytes, pos, result, n) ==
    IF pos >= Len(bytes)
    THEN [kind |-> "hang", value |-> result, pos |-> pos, bytes_read |-> n]
    ELSE IF DecodeRaises(bytes[pos + 1])
    THEN [kind |-> "raise", value |-> result, pos |-> pos + 1, bytes_read |-> n]
    ELSE IF bytes[pos + 1] = NEWLINE
    THEN [kind |-> "ok", value |-> result, pos |-> pos + 1, bytes_read |-> n + 1]
    ELSE ReadStringFrom(bytes, pos + 1, Append(result, bytes[pos + 1]), n + 1)

read_string(bytes, pos) == ReadStringFrom(bytes, pos, <<>>, 0)

(* ---- LotHeaderParser (lot_header_parser.py) ---- *)

\* mutant of _validate_tile_count: only the sign is checked
ValidateSignOnly(count, max_tile_count) == count < 0

\* lot_header_parser.py:39-54: TRUE iff LotHeaderParserError is raised
_validate_tile_count(count, max_tile_count) ==
    count < 0 \/ count > max_tile_count

\* models/tiles/containers.py:30-37
LotHeader(version, names, tile_count) ==
    [version |-> version, tile_names |-> names, tile_count |-> tile_count]

(* parse(), line 93: version = self.reader.read_int32(big_endian=False); a
   struct.error becomes LotHeaderParserError at lines 115-116. *)
header_read_version ==
    /\ hd_pc = "version"
    /\ LET r == read_int32(hd_file.bytes, hd_pos)
       IN  /\ hd_pos' = r.pos
           /\ bytes_read' = bytes_read + 4
           /\ IF r.kind = "raise"
              THEN /\ hd_pc' = "error"
                   /\ UNCHANGED hd_version
              ELSE /\ hd_pc' = "count"
                   /\ hd_version' = r.value
    /\ UNCHANGED <<hd_file, hd_config, hd_tile_count, hd_tile_names, hd_result>>

(* parse(), line 94: tile_count = self.reader.read_int32(big_endian=False). *)
header_read_tile_count ==
    /\ hd_pc = "count"
    /\ LET r == read_int32(hd_file.bytes, hd_pos)
       IN  /\ hd_pos' = r.pos
           /\ bytes_read' = bytes_read + 4
           /\ IF r.kind = "raise"
              THEN /\ hd_pc' = "error"
                   /\ UNCHANGED hd_tile_count
              ELSE /\ hd_pc' = "validate"
                   /\ hd_tile_count' = r.value
    /\ UNCHANGED <<hd_file, hd_config, hd_version, hd_tile_names, hd_result>>

(* parse(), lines 99-100: the count is validated in strict mode only. *)
header_validate ==
    /\ hd_pc = "validate"
    /\ hd_pc' = IF /\ hd_config.strict_mode
                   /\ _validate_tile_count(hd_tile_count, hd_config.max_tile_count)
                THEN "error"
                ELSE "names"
    /\ UNCHANGED <<hd_file, hd_config, hd_pos, bytes_read, hd_version, hd_tile_count,
                   hd_tile_names, hd_result>>

(* _read_tile_names, lines 71-77: one iteration of `for i in range(count)`. *)
header_read_name ==
    /\ hd_pc = "names"
    /\ Len(hd_tile_names) < hd_tile_count
    /\ LET r == read_string(hd_file.bytes, hd_pos)
       IN  /\ hd_pos' = r.pos
           /\ bytes_read' = bytes_read + r.bytes_read
           /\ CASE r.kind = "hang" ->
                     /\ hd_pc' = "hung"
                     /\ UNCHANGED hd_tile_names
                [] r.kind = "raise" \/ r.value = <<>> ->
                     /\ hd_pc' = "error"
                     /\ UNCHANGED hd_tile_names
                [] OTHER ->
                     /\ hd_pc' = "names"
                     /\ hd_tile_names' = Append(hd_tile_names, r.value)
    /\ UNCHANGED <<hd_file, hd_config, hd_version, hd_tile_count, hd_result>>

(* parse(), lines 107-111: range(count) is exhausted and the header is returned. *)
header_return ==
    /\ hd_pc = "names"
    /\ Len(hd_tile_names) >= hd_tile_count
    /\ hd_pc' = "done"
    /\ hd_result' = Some(LotHeader(hd_version, hd_tile_names, hd_tile_count))
    /\ UNCHANGED <<hd_file, hd_config, hd_pos, bytes_read, hd_version, hd_tile_count,
                   hd_tile_names>>

\* no header is being decoded
HeaderIdle ==
    /\ hd_file = HeaderFile(0, 0, <<>>, 0)
    /\ hd_config = [strict_mode |-> TRUE, max_tile_count |-> DEFAULT_MAX_TILE_COUNT]
    /\ hd_pc = "none"
    /\ hd_pos = 0
    /\ bytes_read = 0
    /\ hd_version = 0
    /\ hd_tile_count = 0
    /\ hd_tile_names = <<>>
    /\ hd_result = None

-----------------------------------------------------------------------------
(* The tile definition decoder: parsers/tile_def_parser.py over the bytes of a
   .tiles file, and the configuration TileProcessor.process_tile_file hands to it. *)

LEGACY_FILE_STRIDE == 100 * 1000
LEGACY_BASE == 10000
LEGACY_SHEET_STRIDE == 1000
SHEET_STRIDE == 512

\* "tdef" (tile_def_parser.py:25)
MAGIC_NUMBER == <<116, 100, 101, 102>>

(* ---- the files ---- *)

\* one property: name and value, each newline-terminated
RECURSIVE PropertyBytes(_)
PropertyBytes(props) ==
    IF props = <<>> THEN <<>>
    ELSE Utf8(Head(props)[1]) \o <<NEWLINE>> \o Utf8(Head(props)[2]) \o <<NEWLINE>>
            \o PropertyBytes(Tail(props))

\* the tiles of a tilesheet: property_count and the properties of each (the list
\* is halved to keep the recursion shallow)
RECURSIVE TileBytes(_)
TileBytes(tiles) ==
    IF tiles = <<>> THEN <<>>
    ELSE IF Len(tiles) = 1
    THEN pack_i(Len(tiles[1])) \o PropertyBytes(tiles[1])
    ELSE LET half == Len(tiles) \div 2
         IN  TileBytes(SubSeq(tiles, 1, half))
                \o TileBytes(SubSeq(tiles, half + 1, Len(tiles)))

\* a tilesheet as written: its name, its number and the property lists of its tiles
Sheet(name, tilesheet_number, tiles) ==
    [name |-> name, tilesheet_number |-> tilesheet_number, tiles |-> tiles]

SheetBytes(sheet) ==
    Utf8(sheet.name) \o <<NEWLINE>> \o Utf8(sheet.name) \o <<NEWLINE>>
        \o pack_i(8) \o pack_i(8) \o pack_i(sheet.tilesheet_number)
        \o pack_i(Len(sheet.tiles)) \o TileBytes(sheet.tiles)

RECURSIVE SheetsBytes(_)
SheetsBytes(sheets) ==
    IF sheets = <<>> THEN <<>> ELSE SheetBytes(Head(sheets)) \o SheetsBytes(Tail(sheets))

\* a .tiles file written from a magic and tilesheets, cut `cut` bytes short
TdefFile(magic, sheets, cut) ==
    LET whole == magic \o pack_i(1) \o pack_i(Len(sheets)) \o SheetsBytes(sheets)
    IN  [magic |-> magic, sheets |-> sheets, cut |-> cut,
         bytes |-> SubSeq(whole, 1, Len(whole) - cut)]

\* n tiles without properties
Plain(n) == [i \in 1..n |-> <<>>]

\* a property "k" = "v"
OneProperty == <<<<<<107>>, <<118>>>>>>

\* the largest tilesheets decoded: one tile more than either formula leaves room for
MaxSheetTiles == LEGACY_SHEET_STRIDE + 1

TdefFiles == <<
    \* tilesheets 2 and 0, some tiles with properties
    TdefFile(MAGIC_NUMBER, <<Sheet(<<97>>, 2, <<<<>>, OneProperty, <<>>, OneProperty>>),
                             Sheet(<<98>>, 0, Plain(2))>>, 0),
    \* tilesheet 0 fills the room the second formula leaves, tilesheet 1 follows
    TdefFile(MAGIC_NUMBER, <<Sheet(<<97>>, 0, Plain(SHEET_STRIDE)),
                             Sheet(<<98>>, 1, <<OneProperty, <<>>>>)>>, 0),
    \* tilesheet 0 holds one tile more than that
    TdefFile(MAGIC_NUMBER, <<Sheet(<<97>>, 0, Plain(SHEET_STRIDE + 1)),
                             Sheet(<<98>>, 1, <<OneProperty, <<>>>>)>>, 0),
    \* tilesheet 0 holds one tile more than the first formula leaves room for
    TdefFile(MAGIC_NUMBER, <<Sheet(<<97>>, 0, Plain(MaxSheetTiles)),
                             Sheet(<<98>>, 1, Plain(1))>>, 0),
    \* two tilesheets with the same number
    TdefFile(MAGIC_NUMBER, <<Sheet(<<97>>, 2, <<OneProperty, <<>>>>),
                             Sheet(<<98>>, 2, <<OneProperty, <<>>>>)>>, 0),
    \* a negative tilesheet number
    TdefFile(MAGIC_NUMBER, <<Sheet(<<97>>, -1, Plain(3)), Sheet(<<98>>, 0, Plain(2))>>, 0),
    \* a tilesheet named U+00E9
    TdefFile(MAGIC_NUMBER, <<Sheet(<<233>>, 0, Plain(2))>>, 0),
    \* the file ends inside the last property
    TdefFile(MAGIC_NUMBER, <<Sheet(<<97>>, 2, <<<<>>, OneProperty>>)>>, 1),
    \* the file ends inside a count
    TdefFile(MAGIC_NUMBER, <<Sheet(<<97>>, 2, Plain(2))>>, 2),
    \* "tdeg"
    TdefFile(<<116, 100, 101, 103>>, <<Sheet(<<97>>, 2, Plain(2))>>, 0),
    \* no tilesheet
    TdefFile(MAGIC_NUMBER, <<>>, 0)
>>

\* the stems of the file names: "1_t", "3_t", "0", "t", "-1_t", "12_3"
TdefStems == {<<49, 95, 116>>, <<51, 95, 116>>, <<48>>, <<116>>,
              <<45, 49, 95, 116>>, <<49, 50, 95, 51>>}

(* ---- the file number ---- *)

\* stem.split('_')[0]
RECURSIVE FirstField(_)
FirstField(stem) ==
    IF stem = <<>> \/ Head(stem) = 95 THEN <<>>
    ELSE <<Head(stem)>> \o FirstField(Tail(stem))

IsDigit(c) == c \in 48..57

RECURSIVE DigitsValue(_, _)
DigitsValue(digits, acc) ==
    IF digits = <<>> THEN acc
    ELSE DigitsValue(Tail(digits), 10 * acc + (Head(digits) - 48))

\* int(text): the value, or None for the ValueError of a text that is not an
\* optional sign followed by decimal digits
int(text) ==
    LET digits == IF text # <<>> /\ Head(text) \in {43, 45} THEN Tail(text) ELSE text
    IN  IF digits = <<>> \/ \E k \in DOMAIN digits : ~IsDigit(digits[k])
        THEN None
        ELSE IF Head(text) = 45 THEN Some(0 - DigitsValue(digits, 0))
        ELSE Some(DigitsValue(digits, 0))

\* tile_def_parser.py:39-50
_determine_file_number(stem) ==
    LET n == int(FirstField(stem)) IN IF n = None THEN 0 ELSE n[1]

\* tile_processor.py:97-119
_extract_file_number(stem) == int(FirstField(stem))

TileDefParserConfig(legacy_id_mode) == [legacy_id_mode |-> legacy_id_mode]

\* tile_processor.py:45-48: the configuration process_tile_file builds
process_tile_file_config(stem) ==
    LET file_number == _extract_file_number(stem)
    IN  TileDefParserConfig(IF file_number # None THEN file_number[1] < 2 ELSE FALSE)

\* mutant of _generate_sprite_id: the tilesheet number is left out
GenerateSpriteIdNoSheet(cfg, file_number, tilesheet_number, index) ==
    IF cfg.legacy_id_mode \/ file_number < 2
    THEN file_number * LEGACY_FILE_STRIDE + LEGACY_BASE + index
    ELSE file_number * SHEET_STRIDE * SHEET_STRIDE + index

\* mutant of _generate_sprite_id: the second formula whatever the file number
GenerateSpriteIdNewOnly(cfg, file_number, tilesheet_number, index) ==
    file_number * SHEET_STRIDE * SHEET_STRIDE + tilesheet_number * SHEET_STRIDE + index

\* tile_def_parser.py:52-65
_generate_sprite_id(cfg, file_number, tilesheet_number, index) ==
    IF cfg.legacy_id_mode \/ file_number < 2
    THEN file_number * LEGACY_FILE_STRIDE + LEGACY_BASE
            + tilesheet_number * LEGACY_SHEET_STRIDE + index
    ELSE file_number * SHEET_STRIDE * SHEET_STRIDE
            + tilesheet_number * SHEET_STRIDE + index

(* ---- TileDefParser ---- *)

\* the file read
TdefBytes == TdefFiles[td_file].bytes

\* dict item assignment
Put(dict, key, value) ==
    [k \in DOMAIN dict \cup {key} |-> IF k = key THEN value ELSE dict[k]]

\* tile_def_parser.py:72-75: the loop of _parse_properties with `left` iterations
\* to go: the dict and the position after it ("ok"), or the failure of a read_string
RECURSIVE PropertiesFrom(_, _, _, _)
PropertiesFrom(bytes, pos, left, properties) ==
    IF left <= 0 THEN [kind |-> "ok", value |-> properties, pos |-> pos]
    ELSE LET name == read_string(bytes, pos) IN
         IF name.kind # "ok" THEN [kind |-> name.kind, value |-> properties, pos |-> name.pos]
         ELSE LET value == read_string(bytes, name.pos) IN
              IF value.kind # "ok"
              THEN [kind |-> value.kind, value |-> properties, pos |-> value.pos]
              ELSE PropertiesFrom(bytes, value.pos, left - 1,
                                  Put(properties, name.value, value.value))

\* tile_def_parser.py:67-77
_parse_properties(bytes, pos) ==
    LET property_count == read_int32(bytes, pos)
    IN  IF property_count.kind = "raise"
        THEN [kind |-> "raise", value |-> <<>>, pos |-> property_count.pos]
        ELSE PropertiesFrom(bytes, property_count.pos, property_count.value, <<>>)

\* models: TileDefinition; the name is f"{name}_{tile_index}"
TileDefinition(sprite_id, sheet_name, index, properties) ==
    [sprite_id |-> sprite_id, name |-> <<sheet_name, index>>,
     tilesheet_name |-> sheet_name, properties |-> properties]

\* the outcome of a failed read: TileParserError, or no return
Failed(kind) == IF kind = "hang" THEN "hung" ELSE "error"

(* check_magic_number, lines 161-167: four bytes are read and compared with "tdef";
   a mismatch raises, and so does a short or undecodable read. *)
check_magic_number ==
    /\ td_pc = "magic"
    /\ td_pos' = Min(4, Len(TdefBytes))
    /\ td_pc' = IF SubSeq(TdefBytes, 1, Min(4, Len(TdefBytes))) = MAGIC_NUMBER
                THEN "counts" ELSE "error"
    /\ UNCHANGED <<td_file, td_stem, td_config, _file_number, td_left, td_sheet,
                   tile_index, tile_definitions, tilesheets, td_generated>>

(* parse(), lines 143-144: version and num_tilesheets. *)
tdef_read_counts ==
    /\ td_pc = "counts"
    /\ LET version        == read_int32(TdefBytes, td_pos)
           num_tilesheets == read_int32(TdefBytes, version.pos)
       IN  IF version.kind = "raise" \/ num_tilesheets.kind = "raise"
           THEN /\ td_pc' = "error"
                /\ td_pos' = Len(TdefBytes)
                /\ UNCHANGED td_left
           ELSE /\ td_pc' = "sheet"
                /\ td_pos' = num_tilesheets.pos
                /\ td_left' = num_tilesheets.value
    /\ UNCHANGED <<td_file, td_stem, td_config, _file_number, td_sheet, tile_index,
                   tile_definitions, tilesheets, td_generated>>

(* _parse_tilesheet, lines 81-96: the two strings and the four numbers of the next
   tilesheet of `for _ in range(num_tilesheets)`. *)
_parse_tilesheet ==
    /\ td_pc = "sheet"
    /\ td_left > 0
    /\ LET name             == read_string(TdefBytes, td_pos)
           image_name       == read_string(TdefBytes, name.pos)
           width_tiles      == read_int32(TdefBytes, image_name.pos)
           height_tiles     == read_int32(TdefBytes, width_tiles.pos)
           tilesheet_number == read_int32(TdefBytes, height_tiles.pos)
           num_tiles        == read_int32(TdefBytes, tilesheet_number.pos)
       IN  IF name.kind # "ok"
           THEN td_pc' = Failed(name.kind) /\ td_pos' = name.pos /\ UNCHANGED td_sheet
           ELSE IF image_name.kind # "ok"
           THEN /\ td_pc' = Failed(image_name.kind)
                /\ td_pos' = image_name.pos
                /\ UNCHANGED td_sheet
           ELSE IF num_tiles.kind = "raise" \/ tilesheet_number.kind = "raise"
                   \/ height_tiles.kind = "raise" \/ width_tiles.kind = "raise"
           THEN td_pc' = "error" /\ td_pos' = Len(TdefBytes) /\ UNCHANGED td_sheet
           ELSE /\ td_pc' = "tile"
                /\ td_pos' = num_tiles.pos
                /\ td_sheet' = [name |-> name.value,
                                tilesheet_number |-> tilesheet_number.value,
                                num_tiles |-> num_tiles.value]
    /\ tile_index' = 0
    /\ UNCHANGED <<td_file, td_stem, td_config, _file_number, td_left,
                   tile_definitions, tilesheets, td_generated>>

(* _parse_tilesheet, lines 99-124: one iteration of `for tile_index in
   range(num_tiles)`; a sprite ID already defined skips the tile before its
   properties are read. *)
_parse_tile ==
    /\ td_pc = "tile"
    /\ tile_index < td_sheet.num_tiles
    /\ LET sprite_id  == _generate_sprite_id(td_config, _file_number,
                                             td_sheet.tilesheet_number, tile_index)
           properties == _parse_properties(TdefBytes, td_pos)
       IN  /\ td_generated' = Append(td_generated,
                                     [tilesheet_number |-> td_sheet.tilesheet_number,
                                      tile_index |-> tile_index,
                                      sprite_id |-> sprite_id,
                                      pos |-> td_pos])
           /\ IF sprite_id \in DOMAIN tile_definitions
              THEN /\ tile_index' = tile_index + 1
                   /\ UNCHANGED <<td_pc, td_pos, tile_definitions>>
              ELSE IF properties.kind # "ok"
              THEN /\ td_pc' = Failed(properties.kind)
                   /\ td_pos' = properties.pos
                   /\ UNCHANGED <<tile_index, tile_definitions>>
              ELSE /\ tile_index' = tile_index + 1
                   /\ td_pos' = properties.pos
                   /\ tile_definitions' =
                         Put(tile_definitions, sprite_id,
                             TileDefinition(sprite_id, td_sheet.name, tile_index,
                                            properties.value))
                   /\ UNCHANGED td_pc
    /\ UNCHANGED <<td_file, td_stem, td_config, _file_number, td_left, td_sheet,
                   tilesheets>>

(* _parse_tilesheet returns (line 126) and parse() stores the tilesheet under its
   name (line 154). *)
_parse_tilesheet_return ==
    /\ td_pc = "tile"
    /\ tile_index >= td_sheet.num_tiles
    /\ tilesheets' = Put(tilesheets, td_sheet.name, td_sheet.tilesheet_number)
    /\ td_left' = td_left - 1
    /\ td_pc' = "sheet"
    /\ UNCHANGED <<td_file, td_stem, td_config, _file_number, td_pos, td_sheet,
                   tile_index, tile_definitions, td_generated>>

(* parse(), line 156: range(num_tilesheets) is exhausted; self.tile_definitions is
   returned. *)
tdef_return ==
    /\ td_pc = "sheet"
    /\ td_left <= 0
    /\ td_pc' = "done"
    /\ UNCHANGED <<td_file, td_stem, td_config, _file_number, td_pos, td_left,
                   td_sheet, tile_index, tile_definitions, tilesheets, td_generated>>

\* no .tiles file is being decoded
TdefIdle ==
    /\ td_file = 0
    /\ td_stem = <<>>
    /\ td_config = TileDefParserConfig(FALSE)
    /\ _file_number = 0
    /\ td_pc = "none"
    /\ td_pos = 0
    /\ td_left = 0
    /\ td_sheet = [name |-> <<>>, tilesheet_number |-> 0, num_tiles |-> 0]
    /\ tile_index = 0
    /\ tile_definitions = <<>>
    /\ tilesheets = <<>>
    /\ td_generated = <<>>

-----------------------------------------------------------------------------
(* The coordinate conversions and the bounds: utils/coordinates.py over the
   value classes of models/coordinates.  A caller converts a coordinate back and
   forth a few times, or constructs a BoundsCoord and asks it about cells. *)

\* conversions in a row by one caller
MaxConversions == 3

WorldCoord(x, y, z) == <<x, y, z>>
CellCoord(x, y) == <<x, y>>
LocalChunkCoord(x, y, z) == <<x, y, z>>

\* the quotient and the remainder of a division that rounds toward zero
TruncDiv(a, b) == IF a >= 0 THEN a \div b ELSE 0 - ((0 - a) \div b)
TruncRem(a, b) == a - b * TruncDiv(a, b)

\* mutant of world_to_cell: the division rounds toward zero
WorldToCellTruncating(coord) ==
    <<CellCoord(TruncDiv(coord[1], CELL_SIZE), TruncDiv(coord[2], CELL_SIZE)),
      LocalCellCoord(TruncRem(coord[1], CELL_SIZE), TruncRem(coord[2], CELL_SIZE),
                     coord[3])>>

\* coordinates.py:117-141; `//` and `%` of Python round toward minus infinity, as
\* \div and % do
world_to_cell(coord) ==
    LET cell_x  == coord[1] \div CELL_SIZE
        cell_y  == coord[2] \div CELL_SIZE
        local_x == coord[1] % CELL_SIZE
        local_y == coord[2] % CELL_SIZE
    IN  <<CellCoord(cell_x, cell_y), LocalCellCoord(local_x, local_y, coord[3])>>

\* mutant of world_to_chunk: the local position is taken within the cell
WorldToChunkCellLocal(coord) ==
    <<ChunkCoord(coord[1] \div CHUNK_SIZE, coord[2] \div CHUNK_SIZE),
      LocalChunkCoord(coord[1] % CELL_SIZE, coord[2] % CELL_SIZE, coord[3])>>

\* coordinates.py:144-168
world_to_chunk(coord) ==
    LET chunk_x == coord[1] \div CHUNK_SIZE
        chunk_y == coord[2] \div CHUNK_SIZE
        local_x == coord[1] % CHUNK_SIZE
        local_y == coord[2] % CHUNK_SIZE
    IN  <<ChunkCoord(chunk_x, chunk_y), LocalChunkCoord(local_x, local_y, coord[3])>>

\* mutant of cell_to_world: the level of the local position is dropped
CellToWorldGround(cell, local) ==
    IF local # None
    THEN WorldCoord(cell[1] * CELL_SIZE + local[1][1],
                    cell[2] * CELL_SIZE + local[1][2], 0)
    ELSE WorldCoord(cell[1] * CELL_SIZE, cell[2] * CELL_SIZE, 0)

\* coordinates.py:171-193; `local` is None or a LocalCellCoord (an object, hence
\* true in `if local:`)
cell_to_world(cell, local) ==
    IF local # None
    THEN WorldCoord(cell[1] * CELL_SIZE + local[1][1],
                    cell[2] * CELL_SIZE + local[1][2], local[1][3])
    ELSE WorldCoord(cell[1] * CELL_SIZE, cell[2] * CELL_SIZE, 0)

\* coordinates.py:196-218
chunk_to_world(chunk, local) ==
    IF local # None
    THEN WorldCoord(chunk[1] * CHUNK_SIZE + local[1][1],
                    chunk[2] * CHUNK_SIZE + local[1][2], local[1][3])
    ELSE WorldCoord(chunk[1] * CHUNK_SIZE, chunk[2] * CHUNK_SIZE, 0)

\* coordinates.py:43-51: __post_init__ raises ValueError
PostInitRaises(bounds) ==
    \/ bounds.min_x # None /\ bounds.max_x # None /\ bounds.min_x[1] > bounds.max_x[1]
    \/ bounds.min_y # None /\ bounds.max_y # None /\ bounds.min_y[1] > bounds.max_y[1]

(* ---- the values handed in ---- *)

\* a coordinate a caller holds: a world position, or a cell or a chunk with a
\* local position or None
Held(kind, at, local) == [kind |-> kind, at |-> at, local |-> local]

WorldSamples == {-601, -600, -301, -300, -299, -11, -10, -9, -1,
                 0, 1, 9, 10, 11, 299, 300, 301, 599, 600}
LevelSamples == {0, 7}
IndexSamples == {-31, -2, -1, 0, 1, 30}
LocalCellSamples == {0, 1, 9, 10, 150, 299, 300}
LocalChunkSamples == {0, 1, 5, 9, 10}

HeldAtFirst ==
    {Held("world", WorldCoord(x, y, z), None) :
        x \in WorldSamples, y \in WorldSamples, z \in LevelSamples}
    \cup {Held("cell", CellCoord(cx, cy), Some(LocalCellCoord(x, y, z))) :
            cx \in IndexSamples, cy \in IndexSamples,
            x \in LocalCellSamples, y \in LocalCellSamples, z \in LevelSamples}
    \cup {Held("cell", CellCoord(cx, cy), None) : cx \in IndexSamples, cy \in IndexSamples}
    \cup {Held("chunk", ChunkCoord(cx, cy), Some(LocalChunkCoord(x, y, z))) :
            cx \in IndexSamples, cy \in IndexSamples,
            x \in LocalChunkSamples, y \in LocalChunkSamples, z \in LevelSamples}
    \cup {Held("chunk", ChunkCoord(cx, cy), None) : cx \in IndexSamples, cy \in IndexSamples}

\* the sides a BoundsCoord is constructed with, and the cells it is asked about
SideSamples == {None, Some(-1), Some(0), Some(2)}
CellSamples == {CellCoord(x, y) : x \in -2..3, y \in -2..3}

\* the coordinate the caller holds now
Holding == co_held[Len(co_held)]

(* The caller converts the world position it holds to a cell and a local position. *)
call_world_to_cell ==
    /\ co_mode = "convert"
    /\ Len(co_held) <= MaxConversions
    /\ Holding.kind = "world"
    /\ LET r == world_to_cell(Holding.at)
       IN  co_held' = Append(co_held, Held("cell", r[1], Some(r[2])))
    /\ UNCHANGED <<co_mode, bd_bounds, bd_raised, bd_asked>>

(* The caller converts the world position it holds to a chunk and a local position. *)
call_world_to_chunk ==
    /\ co_mode = "convert"
    /\ Len(co_held) <= MaxConversions
    /\ Holding.kind = "world"
    /\ LET r == world_to_chunk(Holding.at)
       IN  co_held' = Append(co_held, Held("chunk", r[1], Some(r[2])))
    /\ UNCHANGED <<co_mode, bd_bounds, bd_raised, bd_asked>>

(* The caller converts the cell and local position it holds to a world position. *)
call_cell_to_world ==
    /\ co_mode = "convert"
    /\ Len(co_held) <= MaxConversions
    /\ Holding.kind = "cell"
    /\ co_held' = Append(co_held,
                         Held("world", cell_to_world(Holding.at, Holding.local), None))
    /\ UNCHANGED <<co_mode, bd_bounds, bd_raised, bd_asked>>

(* The caller converts the chunk and local position it holds to a world position. *)
call_chunk_to_world ==
    /\ co_mode = "convert"
    /\ Len(co_held) <= MaxConversions
    /\ Holding.kind = "chunk"
    /\ co_held' = Append(co_held,
                         Held("world", chunk_to_world(Holding.at, Holding.local), None))
    /\ UNCHANGED <<co_mode, bd_bounds, bd_raised, bd_asked>>

(* BoundsCoord(min_x, max_x, min_y, max_y): the dataclass is constructed and
   __post_init__ validates it (coordinates.py:38-51). *)
new_BoundsCoord(min_x, max_x, min_y, max_y) ==
    /\ co_mode = "bounds"
    /\ bd_bounds = None
    /\ ~bd_raised
    /\ IF PostInitRaises(BoundsCoord(min_x, max_x, min_y, max_y))
       THEN /\ bd_raised' = TRUE
            /\ UNCHANGED bd_bounds
       ELSE /\ bd_bounds' = Some(BoundsCoord(min_x, max_x, min_y, max_y))
            /\ UNCHANGED bd_raised
    /\ bd_asked' = Some([args |-> <<min_x, max_x, min_y, max_y>>, ret |-> FALSE])
    /\ UNCHANGED <<co_mode, co_held>>

(* bounds.contains(coord) on the BoundsCoord constructed (coordinates.py:53-71). *)
call_contains(coord) ==
    /\ co_mode = "bounds"
    /\ bd_bounds # None
    /\ bd_asked' = Some([args |-> coord, ret |-> contains(bd_bounds[1], coord)])
    /\ UNCHANGED <<co_mode, co_held, bd_bounds, bd_raised>>

\* no coordinate is being converted and no bounds exist
CoordIdle ==
    /\ co_mode = "none"
    /\ co_held = <<>>
    /\ bd_bounds = None
    /\ bd_raised = FALSE
    /\ bd_asked = None

-----------------------------------------------------------------------------
(* MapProcessor.parse_cell on one MapCell whose two files may change between the
   calls (processing/processors/map_processor.py:31-62). *)

\* calls of parse_cell on the one cell
MaxParseCalls == 3

\* what the header file and the pack file of the cell may hold at a call
HeaderShapes ==
    {HeaderOk(<<"Floor_A", "tree">>), HeaderOk(<<"WALL_B">>), HeaderCorrupt,
     HeaderUnterminated}
PackShapes ==
    {PackOk(<<Placed(LocalCellCoord(0, 0, 0), <<0>>)>>), PackOk(<<>>), PackCorrupt}

\* models/world/map_cell.py:31-34
is_loaded(cell) == cell.header # None /\ cell.data # None

(* parse_cell(cell): the call returns with the cell as parse_cell leaves it, or
   never returns because the header decoder does not. *)
call_parse_cell(header, pack) ==
    /\ mc_pc = "idle"
    /\ Len(mc_calls) < MaxParseCalls
    /\ LET dir   == <<DirEntry(mc_cell.position, TRUE, header, pack)>>
           after == IF HeaderHangs(header) THEN mc_cell ELSE parse_cell(dir, mc_cell)
       IN  /\ mc_cell' = after
           /\ mc_calls' = Append(mc_calls,
                                 [header |-> header, pack |-> pack, before |-> mc_cell,
                                  after |-> after, returned |-> ~HeaderHangs(header)])
    /\ mc_pc' = IF HeaderHangs(header) THEN "hung" ELSE "idle"

\* no cell is being parsed on its own
CellIdle ==
    /\ mc_cell = None
    /\ mc_calls = <<>>
    /\ mc_pc = "none"

-----------------------------------------------------------------------------
(* TileProcessor: the store of tile definitions over several .tiles files
   (processing/processors/tile_processor.py).  A file is described by what
   TileDefParser.parse does with it at the call: it returns a dict of
   definitions or raises. *)

\* calls of process_tile_file and clear on one TileProcessor
MaxStoreCalls == 3

TilePaths == {"1_a.tiles", "2_b.tiles"}

ParseReturns(definitions) == [kind |-> "ok", definitions |-> definitions]
ParseRaises == [kind |-> "raise", definitions |-> <<>>]

\* what parse() may do at a call: two dicts that share the sprite ID 2, the
\* empty dict, or an error
ParseOutcomes ==
    {ParseReturns((1 :> "grass") @@ (2 :> "road")),
     ParseReturns((2 :> "wall") @@ (3 :> "door")),
     ParseReturns(<<>>),
     ParseRaises}

\* mutant of _merge_definitions: the new definition replaces the stored one
MergeLastWins(store, new_definitions) ==
    [id \in DOMAIN store \cup DOMAIN new_definitions |->
        IF id \in DOMAIN new_definitions THEN new_definitions[id] ELSE store[id]]

\* tile_processor.py:121-146
_merge_definitions(store, new_definitions) ==
    [id \in DOMAIN store \cup DOMAIN new_definitions |->
        IF id \in DOMAIN store THEN store[id] ELSE new_definitions[id]]

\* the store and the set of processed files
StoreState == [tile_definitions |-> store_definitions, processed |-> _processed_files]

(* process_tile_file(file_path) (tile_processor.py:28-66). *)
process_tile_file(file_path, outcome) ==
    /\ store_pc = "idle"
    /\ Len(store_calls) < MaxStoreCalls
    /\ IF file_path \in _processed_files
       THEN /\ UNCHANGED <<store_definitions, _processed_files>>
            /\ store_calls' = Append(store_calls,
                   [call |-> "process_tile_file", file_path |-> file_path,
                    outcome |-> outcome, before |-> StoreState, ret |-> TRUE])
       ELSE IF outcome.kind = "raise"
       THEN /\ UNCHANGED <<store_definitions, _processed_files>>
            /\ store_calls' = Append(store_calls,
                   [call |-> "process_tile_file", file_path |-> file_path,
                    outcome |-> outcome, before |-> StoreState, ret |-> FALSE])
       ELSE /\ store_definitions' = _merge_definitions(store_definitions,
                                                       outcome.definitions)
            /\ _processed_files' = _processed_files \cup {file_path}
            /\ store_calls' = Append(store_calls,
                   [call |-> "process_tile_file", file_path |-> file_path,
                    outcome |-> outcome, before |-> StoreState, ret |-> TRUE])
    /\ UNCHANGED store_pc

(* clear() (tile_processor.py:89-95). *)
clear ==
    /\ store_pc = "idle"
    /\ Len(store_calls) < MaxStoreCalls
    /\ store_definitions' = <<>>
    /\ _processed_files' = {}
    /\ store_calls' = Append(store_calls,
           [call |-> "clear", file_path |-> "", outcome |-> ParseRaises,
            before |-> StoreState, ret |-> TRUE])
    /\ UNCHANGED store_pc

\* no TileProcessor exists
StoreIdle ==
    /\ store_definitions = <<>>
    /\ _processed_files = {}
    /\ store_calls = <<>>
    /\ store_pc = "none"

-----------------------------------------------------------------------------
(* SpecBatch: process_items over 0..MaxItems generic items. *)

InitBatch ==
    /\ PackIdle
    /\ SearchIdle
    /\ HeaderIdle
    /\ TdefIdle
    /\ CoordIdle
    /\ CellIdle
    /\ StoreIdle
    /\ \E w \in 1..MaxWorkers, b \in 1..MaxBatchSize, r \in 1..MaxRetry :
          config = [max_workers |-> w, batch_size |-> b, retry_count |-> r]
    /\ \E n \in 0..MaxItems : items = [i \in 1..n |-> i]
    /\ filter_on \in BOOLEAN
    \* a new executor, or one that has run over a single item before
    /\ \E before \in {<<0, 0, 0>>, <<1, 0, 1>>, <<0, 1, 1>>} :
          /\ processed_count = before[1]
          /\ failed_count = before[2]
          /\ current_batch = before[3]
    /\ gen = "new"
    /\ batch_start = 0
    /\ futures = <<>>
    /\ results = <<>>
    /\ emitted = <<>>
    /\ submitted = {}
    /\ calls = [i \in 1..MaxItems |-> 0]
    /\ returned = [i \in 1..MaxItems |-> Unset]

NextBatch ==
    \/ process_items_start /\ UNCHANGED <<packVars, searchVars, headerVars, tdefVars, coordVars, cellVars, storeVars>>
    \/ process_items_next_batch /\ UNCHANGED <<packVars, searchVars, headerVars, tdefVars, coordVars, cellVars, storeVars>>
    \/ process_items_finish /\ UNCHANGED <<packVars, searchVars, headerVars, tdefVars, coordVars, cellVars, storeVars>>
    \/ \E i \in 1..MaxBatchSize : worker_start(i) /\ UNCHANGED <<packVars, searchVars, headerVars, tdefVars, coordVars, cellVars, storeVars>>
    \/ \E i \in 1..MaxBatchSize : worker_attempt(i) /\ UNCHANGED <<packVars, searchVars, headerVars, tdefVars, coordVars, cellVars, storeVars>>
    \/ \E i \in 1..MaxBatchSize : collect(i) /\ UNCHANGED <<packVars, searchVars, headerVars, tdefVars, coordVars, cellVars, storeVars>>
    \/ process_items_yield /\ UNCHANGED <<packVars, searchVars, headerVars, tdefVars, coordVars, cellVars, storeVars>>
    \/ process_items_skip_empty /\ UNCHANGED <<packVars, searchVars, headerVars, tdefVars, coordVars, cellVars, storeVars>>
    \/ consumer_next /\ UNCHANGED <<packVars, searchVars, headerVars, tdefVars, coordVars, cellVars, storeVars>>
    \/ consumer_stop /\ UNCHANGED <<packVars, searchVars, headerVars, tdefVars, coordVars, cellVars, storeVars>>

SpecBatch == InitBatch /\ [][NextBatch]_vars

-----------------------------------------------------------------------------
(* SpecPack: LotPackParser.parse over one of PackFiles with one of NameTables. *)

\* no process_items run exists
BatchIdle ==
    /\ config = [max_workers |-> 1, batch_size |-> 1, retry_count |-> 1]
    /\ items = <<>>
    /\ filter_on = FALSE
    /\ processed_count = 0
    /\ failed_count = 0
    /\ current_batch = 0
    /\ gen = "none"
    /\ batch_start = 0
    /\ futures = <<>>
    /\ results = <<>>
    /\ emitted = <<>>
    /\ submitted = {}
    /\ calls = <<>>
    /\ returned = <<>>

InitPack ==
    /\ BatchIdle
    /\ SearchIdle
    /\ HeaderIdle
    /\ TdefIdle
    /\ CoordIdle
    /\ CellIdle
    /\ StoreIdle
    /\ pk_file \in DOMAIN PackFiles
    /\ tile_names \in NameTables
    /\ pk_pc = "offsets"
    /\ pk_pos = 0
    /\ chunk_offsets = <<>>
    /\ current_chunk = NoChunk
    /\ chunk_idx = 0
    /\ walk = 0
    /\ skip_count = 0
    /\ cell_data = <<>>
    /\ pk_error = NoChunk
    /\ count_reads = {}

NextPack ==
    \/ _read_chunk_offsets /\ UNCHANGED <<batchVars, searchVars, headerVars, tdefVars, coordVars, cellVars, storeVars>>
    \/ _parse_chunk /\ UNCHANGED <<batchVars, searchVars, headerVars, tdefVars, coordVars, cellVars, storeVars>>
    \/ _parse_chunk_skip /\ UNCHANGED <<batchVars, searchVars, headerVars, tdefVars, coordVars, cellVars, storeVars>>
    \/ _parse_chunk_read /\ UNCHANGED <<batchVars, searchVars, headerVars, tdefVars, coordVars, cellVars, storeVars>>
    \/ parse_return /\ UNCHANGED <<batchVars, searchVars, headerVars, tdefVars, coordVars, cellVars, storeVars>>

SpecPack == InitPack /\ [][NextPack]_vars

-----------------------------------------------------------------------------
(* Spec: a coordinator over one of Directories; its caller may call parse_all and
   then searches once, sequentially or in parallel. *)

Init ==
    /\ PackIdle
    /\ HeaderIdle
    /\ TdefIdle
    /\ CoordIdle
    /\ CellIdle
    /\ StoreIdle
    /\ \E w \in 1..MaxWorkers :
          config = [max_workers |-> w, batch_size |-> SEARCH_BATCH_SIZE,
                    retry_count |-> SEARCH_RETRY_COUNT]
    /\ items = <<>>
    /\ filter_on = TRUE
    /\ processed_count = 0
    /\ failed_count = 0
    /\ current_batch = 0
    /\ gen = "none"
    /\ batch_start = 0
    /\ futures = <<>>
    /\ results = <<>>
    /\ emitted = <<>>
    /\ submitted = {}
    /\ calls = <<>>
    /\ returned = <<>>
    /\ disk \in Directories
    /\ _map_cells = <<>>
    /\ request = None
    /\ srch = "idle"
    /\ seq_idx = 0
    /\ opened = {}
    /\ parsed = FALSE

Next ==
    \/ \E b \in BoundsChoices : parse_all(b) /\ UNCHANGED <<packVars, headerVars, tdefVars, coordVars, cellVars, storeVars>>
    \/ \E q \in Queries, p \in BOOLEAN, b \in BoundsChoices :
          search_tiles(q, p, b) /\ UNCHANGED <<packVars, headerVars, tdefVars, coordVars, cellVars, storeVars>>
    \/ search_cell_header /\ UNCHANGED <<packVars, headerVars, tdefVars, coordVars, cellVars, storeVars>>
    \/ search_cell_pack /\ UNCHANGED <<packVars, headerVars, tdefVars, coordVars, cellVars, storeVars>>
    \/ search_resume /\ UNCHANGED <<packVars, headerVars, tdefVars, coordVars, cellVars, storeVars>>
    \/ search_stop /\ UNCHANGED <<packVars, headerVars, tdefVars, coordVars, cellVars, storeVars>>
    \/ search_return /\ UNCHANGED <<packVars, headerVars, tdefVars, coordVars, cellVars, storeVars>>
    \/ process_items_start /\ UNCHANGED <<packVars, searchVars, headerVars, tdefVars, coordVars, cellVars, storeVars>>
    \/ process_items_next_batch /\ UNCHANGED <<packVars, searchVars, headerVars, tdefVars, coordVars, cellVars, storeVars>>
    \/ process_items_finish /\ UNCHANGED <<packVars, searchVars, headerVars, tdefVars, coordVars, cellVars, storeVars>>
    \/ \E i \in 1..SEARCH_BATCH_SIZE : worker_start(i) /\ UNCHANGED <<packVars, searchVars, headerVars, tdefVars, coordVars, cellVars, storeVars>>
    \/ \E i \in 1..SEARCH_BATCH_SIZE : process_cell_header(i) /\ UNCHANGED <<packVars, headerVars, tdefVars, coordVars, cellVars, storeVars>>
    \/ \E i \in 1..SEARCH_BATCH_SIZE : process_cell_pack(i) /\ UNCHANGED <<packVars, headerVars, tdefVars, coordVars, cellVars, storeVars>>
    \/ \E i \in 1..SEARCH_BATCH_SIZE : collect(i) /\ UNCHANGED <<packVars, searchVars, headerVars, tdefVars, coordVars, cellVars, storeVars>>
    \/ process_items_yield /\ UNCHANGED <<packVars, searchVars, headerVars, tdefVars, coordVars, cellVars, storeVars>>
    \/ process_items_skip_empty /\ UNCHANGED <<packVars, searchVars, headerVars, tdefVars, coordVars, cellVars, storeVars>>
    \/ consumer_next /\ UNCHANGED <<packVars, searchVars, headerVars, tdefVars, coordVars, cellVars, storeVars>>
    \/ consumer_stop /\ UNCHANGED <<packVars, searchVars, headerVars, tdefVars, coordVars, cellVars, storeVars>>

Spec == Init /\ [][Next]_vars

-----------------------------------------------------------------------------
(* SpecHeader: LotHeaderParser.parse over one of HeaderFiles under one of
   HeaderConfigs, one step per read. *)

InitHeader ==
    /\ BatchIdle
    /\ PackIdle
    /\ SearchIdle
    /\ TdefIdle
    /\ CoordIdle
    /\ CellIdle
    /\ StoreIdle
    /\ hd_file \in HeaderFiles
    /\ hd_config \in HeaderConfigs
    /\ hd_pc = "version"
    /\ hd_pos = 0
    /\ bytes_read = 0
    /\ hd_version = 0
    /\ hd_tile_count = 0
    /\ hd_tile_names = <<>>
    /\ hd_result = None

NextHeader ==
    \/ header_read_version /\ UNCHANGED <<batchVars, packVars, searchVars, tdefVars, coordVars, cellVars, storeVars>>
    \/ header_read_tile_count /\ UNCHANGED <<batchVars, packVars, searchVars, tdefVars, coordVars, cellVars, storeVars>>
    \/ header_validate /\ UNCHANGED <<batchVars, packVars, searchVars, tdefVars, coordVars, cellVars, storeVars>>
    \/ header_read_name /\ UNCHANGED <<batchVars, packVars, searchVars, tdefVars, coordVars, cellVars, storeVars>>
    \/ header_return /\ UNCHANGED <<batchVars, packVars, searchVars, tdefVars, coordVars, cellVars, storeVars>>

SpecHeader == InitHeader /\ [][NextHeader]_vars

-----------------------------------------------------------------------------
(* SpecTdef: TileDefParser.parse over one of TdefFiles under one of TdefStems as
   the file name, with the configuration of process_tile_file or a forced
   legacy_id_mode. *)

InitTdef ==
    /\ BatchIdle
    /\ PackIdle
    /\ SearchIdle
    /\ HeaderIdle
    /\ CoordIdle
    /\ CellIdle
    /\ StoreIdle
    /\ td_file \in DOMAIN TdefFiles
    /\ td_stem \in TdefStems
    /\ td_config \in {process_tile_file_config(td_stem), TileDefParserConfig(TRUE),
                      TileDefParserConfig(FALSE)}
    /\ _file_number = _determine_file_number(td_stem)
    /\ td_pc = "magic"
    /\ td_pos = 0
    /\ td_left = 0
    /\ td_sheet = [name |-> <<>>, tilesheet_number |-> 0, num_tiles |-> 0]
    /\ tile_index = 0
    /\ tile_definitions = <<>>
    /\ tilesheets = <<>>
    /\ td_generated = <<>>

NextTdef ==
    \/ check_magic_number /\ UNCHANGED <<batchVars, packVars, searchVars, headerVars, coordVars, cellVars, storeVars>>
    \/ tdef_read_counts /\ UNCHANGED <<batchVars, packVars, searchVars, headerVars, coordVars, cellVars, storeVars>>
    \/ _parse_tilesheet /\ UNCHANGED <<batchVars, packVars, searchVars, headerVars, coordVars, cellVars, storeVars>>
    \/ _parse_tile /\ UNCHANGED <<batchVars, packVars, searchVars, headerVars, coordVars, cellVars, storeVars>>
    \/ _parse_tilesheet_return
          /\ UNCHANGED <<batchVars, packVars, searchVars, headerVars, coordVars, cellVars, storeVars>>
    \/ tdef_return /\ UNCHANGED <<batchVars, packVars, searchVars, headerVars, coordVars, cellVars, storeVars>>

SpecTdef == InitTdef /\ [][NextTdef]_vars

-----------------------------------------------------------------------------
(* SpecCoord: a caller of CoordinateConverter that starts from one of HeldAtFirst,
   or a caller that constructs a BoundsCoord from SideSamples and asks it about
   CellSamples. *)

InitCoord ==
    /\ BatchIdle
    /\ PackIdle
    /\ SearchIdle
    /\ HeaderIdle
    /\ TdefIdle
    /\ CellIdle
    /\ StoreIdle
    /\ \/ co_mode = "convert" /\ \E h \in HeldAtFirst : co_held = <<h>>
       \/ co_mode = "bounds" /\ co_held = <<>>
    /\ bd_bounds = None
    /\ bd_raised = FALSE
    /\ bd_asked = None

NextCoord ==
    \/ call_world_to_cell
          /\ UNCHANGED <<batchVars, packVars, searchVars, headerVars, tdefVars, cellVars, storeVars>>
    \/ call_world_to_chunk
          /\ UNCHANGED <<batchVars, packVars, searchVars, headerVars, tdefVars, cellVars, storeVars>>
    \/ call_cell_to_world
          /\ UNCHANGED <<batchVars, packVars, searchVars, headerVars, tdefVars, cellVars, storeVars>>
    \/ call_chunk_to_world
          /\ UNCHANGED <<batchVars, packVars, searchVars, headerVars, tdefVars, cellVars, storeVars>>
    \/ \E min_x \in SideSamples, max_x \in SideSamples,
          min_y \in SideSamples, max_y \in SideSamples :
          new_BoundsCoord(min_x, max_x, min_y, max_y)
             /\ UNCHANGED <<batchVars, packVars, searchVars, headerVars, tdefVars, cellVars, storeVars>>
    \/ \E coord \in CellSamples :
          call_contains(coord)
             /\ UNCHANGED <<batchVars, packVars, searchVars, headerVars, tdefVars, cellVars, storeVars>>

SpecCoord == InitCoord /\ [][NextCoord]_vars

-----------------------------------------------------------------------------
(* SpecCell: parse_cell called up to MaxParseCalls times on one fresh MapCell,
   the two files of the cell being any of HeaderShapes and PackShapes at each
   call. *)

InitCell ==
    /\ BatchIdle
    /\ PackIdle
    /\ SearchIdle
    /\ HeaderIdle
    /\ TdefIdle
    /\ CoordIdle
    /\ StoreIdle
    /\ mc_cell = MapCell(<<0, 0>>, 1)
    /\ mc_calls = <<>>
    /\ mc_pc = "idle"

NextCell ==
    \E header \in HeaderShapes, pack \in PackShapes :
        call_parse_cell(header, pack)
           /\ UNCHANGED <<batchVars, packVars, searchVars, headerVars, tdefVars,
                          coordVars, storeVars>>

SpecCell == InitCell /\ [][NextCell]_vars

-----------------------------------------------------------------------------
(* SpecStore: up to MaxStoreCalls calls of process_tile_file and clear on one new
   TileProcessor, over TilePaths and ParseOutcomes. *)

InitStore ==
    /\ BatchIdle
    /\ PackIdle
    /\ SearchIdle
    /\ HeaderIdle
    /\ TdefIdle
    /\ CoordIdle
    /\ CellIdle
    /\ store_definitions = <<>>
    /\ _processed_files = {}
    /\ store_calls = <<>>
    /\ store_pc = "idle"

NextStore ==
    \/ \E file_path \in TilePaths, outcome \in ParseOutcomes :
          process_tile_file(file_path, outcome)
             /\ UNCHANGED <<batchVars, packVars, searchVars, headerVars, tdefVars,
                            coordVars, cellVars>>
    \/ clear /\ UNCHANGED <<batchVars, packVars, searchVars, headerVars, tdefVars,
                            coordVars, cellVars>>

SpecStore == InitStore /\ [][NextStore]_vars

-----------------------------------------------------------------------------
(* Properties of the batch executor (checked under SpecBatch) *)

Range(s) == {s[i] : i \in DOMAIN s}

\* the items of the batches that process_items has finished with
FinishedItems ==
    IF gen \in {"new", "loop", "done"}
    THEN {items[k] : k \in 1..Min(batch_start, Len(items))}
    ELSE {items[k] : k \in 1..Min(batch_start, Len(items))} \cup
         {futures[i].item : i \in {j \in DOMAIN futures : futures[j].collected}}

\* the number of the batch an input index falls in (1-based)
BatchOf(item) == ((item - 1) \div config.batch_size) + 1

(* C6: the yielded lists follow the input order: every result of an earlier list
   comes from a lower input index than every result of a later list, and the
   results of one list come from one contiguous slice of batch_size items. *)
C6_BatchesInInputOrder ==
    /\ \A a, b \in DOMAIN emitted : a < b =>
          \A i \in DOMAIN emitted[a], j \in DOMAIN emitted[b] :
              emitted[a][i].item < emitted[b][j].item
    /\ \A a \in DOMAIN emitted :
          \A i, j \in DOMAIN emitted[a] :
              BatchOf(emitted[a][i].item) = BatchOf(emitted[a][j].item)

\* two lists were yielded and the first holds its results against the input order
C6_Witness ==
    /\ Len(emitted) >= 2
    /\ Len(emitted[1]) = 2
    /\ emitted[1][1].item > emitted[1][2].item

(* C7: process_func is invoked for an item until its first success and at most
   retry_count times; an item whose attempts all raised adds one to failed_count,
   nothing to processed_count and nothing to the output. *)
C7_RetryUntilFirstSuccess ==
    /\ \A it \in Range(items) : calls[it] <= config.retry_count
    /\ \A i \in DOMAIN futures :
          /\ futures[i].state = "ok" =>
                /\ calls[futures[i].item] = futures[i].attempt + 1
                /\ futures[i].result = returned[futures[i].item]
          /\ futures[i].state = "raised" =>
                /\ calls[futures[i].item] = config.retry_count
                /\ returned[futures[i].item] = Raise
    /\ gen # "new" =>
          /\ failed_count =
                Cardinality({it \in FinishedItems : returned[it].kind = "raise"})
          /\ processed_count =
                Cardinality({it \in FinishedItems : returned[it].kind \in {"none", "val"}})
    /\ \A a \in DOMAIN emitted : \A i \in DOMAIN emitted[a] :
          returned[emitted[a][i].item] = emitted[a][i]

\* the run is over; one item failed on every attempt, another succeeded on its
\* second attempt and was delivered
C7_Witness ==
    /\ gen = "done"
    /\ config.retry_count = 2
    /\ \E it \in Range(items) : calls[it] = 2 /\ returned[it] = Raise
    /\ \E it \in Range(items) :
          /\ calls[it] = 2
          /\ returned[it].kind = "val"
          /\ returned[it] \in Range(Flatten(emitted))
    /\ failed_count = 1

(* C8: the output of a batch holds exactly the worker results that are not None
   and pass filter_func (if one is given), each once; an empty output is never
   yielded, and current_batch still counts the batch. *)
C8_BatchOutput ==
    /\ gen \in {"yield", "loop", "done", "closed"} =>
          /\ \A it \in FinishedItems :
                (returned[it] \in Range(Flatten(emitted)))
                   <=> /\ returned[it].kind = "val"
                       /\ filter_on => returned[it].payload # <<>>
          /\ \A r \in Range(Flatten(emitted)) : r.kind = "val" /\ r.item \in FinishedItems
          /\ Len(Flatten(emitted)) = Cardinality(Range(Flatten(emitted)))
    /\ \A a \in DOMAIN emitted : emitted[a] # <<>>
    /\ gen = "done" =>
          current_batch = (Len(items) + config.batch_size - 1) \div config.batch_size
    /\ gen \in {"batch", "yield", "closed"} => current_batch = BatchOf(batch_start + 1)

\* a finished run of two batches of which only one was yielded, with a filter that
\* rejected a result
C8_Witness ==
    /\ gen = "done"
    /\ filter_on
    /\ current_batch = 2
    /\ Len(emitted) = 1
    /\ \E it \in Range(items) : returned[it].kind = "val" /\ returned[it].payload = <<>>

(* C9: once the consumer has stopped after a yielded list, no item of a later
   batch was or will be submitted, and when a list is delivered every worker of
   the batches started so far has completed. *)
C9_StopHaltsSubmission ==
    /\ gen \in {"yield", "closed"} =>
          /\ \A i \in DOMAIN futures : Completed(futures[i]) /\ futures[i].collected
          /\ \A it \in Range(items) : it \in submitted <=> it \in FinishedItems
    /\ gen = "closed" =>
          /\ \A it \in Range(items) :
                BatchOf(it) > current_batch => it \notin submitted /\ calls[it] = 0
          /\ ~ENABLED NextBatch

\* the consumer stopped after the first list while a later batch was still to come
C9_Witness ==
    /\ gen = "closed"
    /\ Len(emitted) = 1
    /\ \E it \in Range(items) : it \notin submitted

\* the workers of the batch executor that are inside process_func or between two
\* attempts of it
InFlight == Cardinality(Running)

\* every item of a batch before the current one has left its worker
EarlierBatchesFinished ==
    \A k \in DOMAIN items :
        BatchOf(items[k]) < current_batch => returned[items[k]] # Unset

(* C20: no worker of batch k+1 starts before every worker of batch k has
   finished: outside _process_batch every future is completed, the futures are
   those of the current batch only, and a worker of it starts only after every
   item of the earlier batches has left its worker; hence the number of calls of
   the worker function in flight never exceeds min(max_workers, batch_size). *)
C20_BatchDrainsBeforeNext ==
    /\ gen # "batch" => \A i \in DOMAIN futures : Completed(futures[i])
    /\ \A i \in DOMAIN futures :
          /\ BatchOf(futures[i].item) = current_batch
          /\ futures[i].state # "queued" => EarlierBatchesFinished
    /\ InFlight <= Min(config.max_workers, config.batch_size)

\* with one worker and batches of two, the worker of the third item runs after the
\* two items of the first batch went through the worker one at a time
C20_Witness ==
    /\ config.max_workers = 1
    /\ config.batch_size = 2
    /\ current_batch = 2
    /\ InFlight = 1
    /\ returned[1] # Unset
    /\ returned[2] # Unset
    /\ returned[3] = Unset

\* ceil(len(items) / batch_size)
BatchesOf(n) == (n + config.batch_size - 1) \div config.batch_size

\* the items of the batches started so far
ItemsStarted == Min(current_batch * config.batch_size, Len(items))

(* C28: the counters are reset when a run of process_items starts; during the
   run processed_items + failed_items never exceeds the number of items of the
   batches started so far; once the stream is consumed to the end the sum is the
   number of input items and total_batches is ceil(len(items) / batch_size). *)
C28_CountersOfTheRun ==
    /\ (gen = "loop" /\ batch_start = 0) =>
          processed_count = 0 /\ failed_count = 0 /\ current_batch = 0
    /\ gen \in {"loop", "batch", "yield", "done", "closed"} =>
          processed_count + failed_count <= ItemsStarted
    /\ gen = "done" =>
          /\ processed_count + failed_count = Len(items)
          /\ current_batch = BatchesOf(Len(items))

\* a run over three items in batches of two was consumed to the end, one item
\* failing and two giving a result
C28_Witness ==
    /\ gen = "done"
    /\ Len(items) = 3
    /\ config.batch_size = 2
    /\ current_batch = 2
    /\ processed_count = 2
    /\ failed_count = 1

-----------------------------------------------------------------------------
(* Properties of the lot pack decoder (checked under SpecPack) *)

\* the squares of cell_data that lie in chunk `chunk`
SquaresOfChunk(chunk) ==
    {p \in DOMAIN cell_data :
        /\ p[1] \div CHUNK_SIZE = chunk[1]
        /\ p[2] \div CHUNK_SIZE = chunk[2]}

\* the number of tiles placed on a square
TilesOn(gs) == Len(gs.floor_tiles) + Len(gs.wall_tiles) + Len(gs.object_tiles)

\* the squares of a chunk that hold at least one tile
TiledSquares(chunk) == {p \in SquaresOfChunk(chunk) : TilesOn(cell_data[p]) > 0}

\* the body of chunk (0,0) starts with count = -1, skip = 5, count = 1, 0, and
\* tile ID 0 is valid in the header
SkipMarkerScenario ==
    /\ pk_file \in DOMAIN PackFiles
    /\ ~TableShort(PackFiles[pk_file])
    /\ 0 \in DOMAIN TableOffsets(PackFiles[pk_file])
    /\ LET file == PackFiles[pk_file]
           w == TableOffsets(file)[0] \div 4
       IN  /\ Len(file) >= w + 4
           /\ SubSeq(file, w + 1, w + 4) = <<-1, 5, 1, 0>>
    /\ Len(tile_names) >= 1

\* the walk indices of chunk (0,0) at which a count field was read
ReadWalks == {r.walk : r \in {q \in count_reads : q.chunk = ChunkCoord(0, 0)}}

(* C10 as stated: after decoding, chunk (0,0) holds exactly one tile, on the
   square z=0, x=0, y=4. *)
C10_OneTileAtY4 ==
    (pk_pc = "done" /\ SkipMarkerScenario) =>
        /\ TiledSquares(ChunkCoord(0, 0)) = {LocalCellCoord(0, 4, 0)}
        /\ TilesOn(cell_data[LocalCellCoord(0, 4, 0)]) = 1

(* C10 as amended: the positions y=0..4 of z=0, x=0 are skipped and the count
   field 1 is read at the 6th position of the walk, z=0, x=0, y=5; it
   materialises a square there with no tile and no room_id, and the value 0
   after it is read as the count field of y=6, which stays empty: the first
   seven positions of the chunk hold no tile.  (Stated from the moment the
   position y=6 has been read, and of the finished decode.) *)
C10_EmptySquareAtY5 ==
    (SkipMarkerScenario /\ (pk_pc = "done" \/ \E w \in ReadWalks : w >= 6)) =>
        /\ ReadWalks \cap (0..6) = {0, 5, 6}
        /\ \E r \in count_reads :
              /\ r.chunk = ChunkCoord(0, 0) /\ r.walk = 6
              /\ r.pos = TableOffsets(PackFiles[pk_file])[0] + 12
        /\ {p \in SquaresOfChunk(ChunkCoord(0, 0)) : p[1] = 0 /\ p[3] = 0 /\ p[2] <= 6}
              = {LocalCellCoord(0, 5, 0)}
        /\ cell_data[LocalCellCoord(0, 5, 0)] = GridSquare

\* the scenario file was decoded to the end and the square at y=5 exists
C10_Witness ==
    /\ pk_pc = "done"
    /\ SkipMarkerScenario
    /\ LocalCellCoord(0, 5, 0) \in DOMAIN cell_data
    /\ TiledSquares(ChunkCoord(0, 0)) = {}

\* the layer the classification rule gives each name of Names: "wall" when the
\* lowercased name contains "wall", else "floor" when it contains "floor", else
\* "object"
LayerOfName(name) ==
    CASE name = "Floor_A" -> "floor"
      [] name = "floor_a" -> "floor"
      [] name = "WALL_B" -> "wall"
      [] name = "floorwall_01" -> "wall"
      [] OTHER -> "object"

\* the count fields read so far that announce a room and tile IDs which the file
\* holds to the last
ListsRead ==
    {r \in count_reads :
        LET file == PackFiles[pk_file]
            w    == r.pos \div 4 + 1
        IN  /\ w <= Len(file)
            /\ file[w] >= 2
            /\ w + file[w] <= Len(file)}

\* the tile IDs that follow the count field of r and its room_id
TileIdsOf(r) ==
    LET file == PackFiles[pk_file]
        w    == r.pos \div 4 + 1
    IN  SubSeq(file, w + 2, w + file[w])

InNameTable(id) == 0 <= id /\ id < Len(tile_names)

\* the IDs of a list that the rule sends to `layer`, in file order
IdsFor(ids, layer) ==
    SelectSeq(ids, LAMBDA id : InNameTable(id) /\ LayerOfName(tile_names[id + 1]) = layer)

\* a layer holds exactly the tiles of `ids`, each with the name the table gives it
HoldsTiles(tiles, ids) ==
    tiles = [k \in DOMAIN ids |-> Tile(ids[k], tile_names[ids[k] + 1])]

\* the whole files with a tile ID outside every name table
FilesWithStrayIds == {5, 12}

\* C15: of the tile IDs read for a position, those within the name table are each
\* placed once, in the wall layer when the lowercased name contains "wall", else
\* in the floor layer when it contains "floor", else in the object layer
\* ("floorwall_01" goes to wall); an ID outside the table adds no tile, and a
\* file with such IDs decodes without error.
C15_TilesPlacedByLayer ==
    /\ \A r \in ListsRead :
          LET position == PosInCell(r.chunk, r.walk)
              ids      == TileIdsOf(r)
          IN  /\ position \in DOMAIN cell_data
              /\ HoldsTiles(cell_data[position].wall_tiles, IdsFor(ids, "wall"))
              /\ HoldsTiles(cell_data[position].floor_tiles, IdsFor(ids, "floor"))
              /\ HoldsTiles(cell_data[position].object_tiles, IdsFor(ids, "object"))
    /\ pk_file \in FilesWithStrayIds => pk_pc # "error"

\* the file with the IDs 1, 3, 0, 2, 9 was decoded to the end against the table
\* of four names: two walls (one of them "floorwall_01"), one floor, one object,
\* and nothing for 9
C15_Witness ==
    /\ pk_pc = "done"
    /\ pk_file = 5
    /\ Len(tile_names) = 4
    /\ LET gs == cell_data[LocalCellCoord(0, 0, 0)]
       IN  /\ Len(gs.wall_tiles) = 2
           /\ gs.wall_tiles[2].texture_name = "floorwall_01"
           /\ Len(gs.floor_tiles) = 1
           /\ Len(gs.object_tiles) = 1

-----------------------------------------------------------------------------
(* Claims about the search (Spec). *)

\* the consumer has stopped iterating
Closed == srch = "closed" \/ gen = "closed"

\* the stream of the search was consumed to its end
StreamEnded == srch = "done" \/ (srch = "parallel" /\ gen = "done")

\* a parallel search whose batch cannot end: every pool thread still at work is
\* inside a header decoder that does not return, and no queued item can start
Stalled ==
    /\ srch = "parallel"
    /\ gen = "batch"
    /\ \E i \in DOMAIN futures : futures[i].stage = "hung"
    /\ \A i \in DOMAIN futures :
          /\ ~CanStart(i)
          /\ IF futures[i].state = "running"
             THEN futures[i].stage = "hung"
             ELSE futures[i].state = "queued" \/ futures[i].collected

\* the search was started, the consumer keeps iterating, and nothing can move
SearchAtRest ==
    /\ request # None
    /\ ~Closed
    /\ StreamEnded \/ srch = "hung" \/ Stalled

\* the pairs the consumer received, the batches of a parallel search flattened
Delivered == IF request[1].parallel THEN Flatten(emitted) ELSE emitted

\* the cells whose header file the search opened
Visited == {o.cell : o \in {x \in opened : x.file = "header"}}

\* search_processor.py:48-58: the pairs the sequential search yields over the cell
\* map from cell k on; it yields no more once a header decoder does not return
RECURSIVE SequentialYield(_, _)
SequentialYield(k, names_lower) ==
    IF k > Len(_map_cells) THEN <<>>
    ELSE LET cell  == _map_cells[k]
             stage == HeaderStage(disk[cell.entry].header, names_lower)
             found == IF stage = "pack"
                      THEN PackStage(disk[cell.entry].header, disk[cell.entry].pack,
                                     names_lower)
                      ELSE <<>>
         IN  IF stage = "hang" THEN <<>>
             ELSE (IF Found(found) THEN <<Value(cell.position, found)>> ELSE <<>>)
                     \o SequentialYield(k + 1, names_lower)

\* the names of a header and of a query meet after lowercasing
Intersects(names, query) ==
    \E i \in DOMAIN names, j \in DOMAIN query : Lower(names[i]) = Lower(query[j])

\* the tile IDs of a file pair that resolve to a queried name, by place in the pack
HitPlaces(e, query) ==
    {x \in {<<j, i>> : j \in DOMAIN e.pack.placed, i \in 1..2} :
        /\ x[2] \in DOMAIN e.pack.placed[x[1]].ids
        /\ e.pack.placed[x[1]].ids[x[2]] \in 0..(Len(e.header.names) - 1)
        /\ Intersects(<<e.header.names[e.pack.placed[x[1]].ids[x[2]] + 1]>>, query)}

HitAt(e, x) ==
    <<e.pack.placed[x[1]].pos, e.header.names[e.pack.placed[x[1]].ids[x[2]] + 1]>>

\* the bag of hits a file pair holds for a query; empty when a file does not decode
ExpectedHits(e, query) ==
    IF e.header.kind = "ok" /\ e.pack.kind = "ok"
    THEN [v \in {HitAt(e, x) : x \in HitPlaces(e, query)} |->
             Cardinality({x \in HitPlaces(e, query) : HitAt(e, x) = v})]
    ELSE SeqToBag(<<>>)

\* the (header, pack) pairs of the maps directory
PairsOnDisk ==
    {disk[k].stem : k \in {j \in DOMAIN disk : disk[j].stem # BadStem /\ disk[j].has_pack}}

\* C1: over the same cell collection and the same query names the parallel search,
\* its batches flattened, delivers the same multiset of (cell, hits) pairs as the
\* sequential search yields, whatever the interleaving of the workers: once the
\* search is at rest no pair is missing and none is duplicated.
C1_SameMultisetAsSequential ==
    SearchAtRest =>
        SeqToBag(Delivered) = SeqToBag(SequentialYield(1, tile_names_lower))

\* C2: after a search stream was consumed to its end, sequential or parallel, every
\* MapCell of the cell map has header = None and data = None, whether it matched,
\* was pruned by its header, failed to decode or was loaded earlier by parse_all.
C2_CellsReleased ==
    StreamEnded =>
        \A k \in DOMAIN _map_cells :
            _map_cells[k].header = None /\ _map_cells[k].data = None

C2_Witness ==
    /\ StreamEnded
    /\ parsed
    /\ request[1].bounds = None
    /\ \E k \in DOMAIN _map_cells : parse_cell(disk, _map_cells[k]).data # None
    /\ \E k \in DOMAIN _map_cells : disk[_map_cells[k].entry].pack.kind = "corrupt"
    /\ \E k \in DOMAIN _map_cells : OpenOf("pack", _map_cells[k].position) \in opened
    /\ \E k \in DOMAIN _map_cells :
          /\ disk[_map_cells[k].entry].header.kind = "ok"
          /\ OpenOf("pack", _map_cells[k].position) \notin opened

\* C3: a cell whose lowercased header names are disjoint from the lowercased query
\* yields an empty list and its pack file is never opened; a pack is opened only
\* after the header of its cell was opened, decoded and found to meet the query.
C3_PackOnlyAfterMatchingHeader ==
    \A k \in DOMAIN _map_cells :
        LET cell == _map_cells[k]
            e    == disk[cell.entry]
        IN  /\ OpenOf("pack", cell.position) \in opened =>
                  /\ OpenOf("header", cell.position) \in opened
                  /\ e.header.kind = "ok"
                  /\ Intersects(e.header.names, request[1].tile_names)
            /\ (/\ request # None
                /\ e.header.kind = "ok"
                /\ ~Intersects(e.header.names, request[1].tile_names)) =>
                  /\ OpenOf("pack", cell.position) \notin opened
                  /\ \A d \in DOMAIN Delivered : Delivered[d].item # cell.position
                  /\ request[1].parallel =>
                        returned[cell.position] \in {Unset, Value(cell.position, <<>>)}

C3_Witness ==
    /\ StreamEnded
    /\ \E k \in DOMAIN _map_cells :
          /\ disk[_map_cells[k].entry].header.kind = "ok"
          /\ ~Intersects(disk[_map_cells[k].entry].header.names, request[1].tile_names)
          /\ OpenOf("header", _map_cells[k].position) \in opened
          /\ OpenOf("pack", _map_cells[k].position) \notin opened
    /\ \E k \in DOMAIN _map_cells : OpenOf("pack", _map_cells[k].position) \in opened

\* C4: a cell whose header or pack does not decode never aborts a search: once the
\* search is at rest its stream has ended, no worker has failed, every cell of the
\* collection was processed, and each cell delivered exactly the hits its files
\* hold (none for a cell that does not decode), in both modes.
C4_FailureNeverAborts ==
    SearchAtRest =>
        /\ StreamEnded
        /\ failed_count = 0
        /\ \A k \in DOMAIN _map_cells :
              LET cell == _map_cells[k]
                  exp  == ExpectedHits(disk[cell.entry], request[1].tile_names)
                  got  == {d \in DOMAIN Delivered : Delivered[d].item = cell.position}
              IN  /\ cell.position \in Visited
                  /\ IF exp = SeqToBag(<<>>)
                     THEN got = {}
                     ELSE /\ Cardinality(got) = 1
                          /\ \A d \in got : SeqToBag(Delivered[d].payload) = exp

\* C5: search_tiles with the default bounds on a newly constructed coordinator, no
\* parse_all before it, visits every (header, pack) pair of the maps directory.
C5_DefaultBoundsVisitAllPairs ==
    (StreamEnded /\ ~parsed /\ request[1].bounds = None) => Visited = PairsOnDisk

-----------------------------------------------------------------------------
(* Properties of the lot header decoder (checked under SpecHeader) *)

\* parse() has returned, raised, or will never return
HeaderAtRest == hd_pc \in {"done", "error", "hung"}

\* the count field of the file, present once the file holds eight bytes
HasCountField == Len(hd_file.bytes) >= 8
FileTileCount == unpack_i(SubSeq(hd_file.bytes, 5, 8))

\* C11: in strict mode a header whose tile_count is negative or above
\* max_tile_count never reaches the name table, returns nothing and never hangs:
\* it can end only in LotHeaderParserError, raised when exactly the 8 bytes of
\* the version and count fields have been read and no name has been read.
C11_StrictCountRejectedAtByte8 ==
    (/\ hd_config.strict_mode
     /\ HasCountField
     /\ FileTileCount < 0 \/ FileTileCount > hd_config.max_tile_count)
    => /\ hd_pc \notin {"names", "done", "hung"}
       /\ hd_result = None
       /\ HeaderAtRest => /\ hd_pc = "error"
                          /\ hd_pos = 8
                          /\ bytes_read = 8
                          /\ hd_tile_names = <<>>

\* a header with tile_count above the default maximum and a name table behind it
\* was rejected in strict mode
C11_Witness ==
    /\ hd_config.strict_mode
    /\ hd_config.max_tile_count = DEFAULT_MAX_TILE_COUNT
    /\ HasCountField
    /\ FileTileCount = DEFAULT_MAX_TILE_COUNT + 1
    /\ Len(hd_file.bytes) > 8
    /\ hd_pc = "error"
    /\ hd_pos = 8

\* the file holds exactly a version, a count n within 0..max_tile_count and n
\* newline-terminated names
WellFormedHeader ==
    /\ hd_file.bytes = pack_i(hd_file.version) \o pack_i(hd_file.tile_count)
                          \o NameTableBytes(hd_file.names)
    /\ hd_file.tile_count \in 0..hd_config.max_tile_count
    /\ Len(hd_file.names) = hd_file.tile_count
    /\ \A i \in DOMAIN hd_file.names : NEWLINE \notin Range(hd_file.names[i])

NoEmptyName == \A i \in DOMAIN hd_file.names : hd_file.names[i] # <<>>

\* C12: decoding a well-formed header whose names are all non-empty never fails
\* and never hangs, and returns a LotHeader with the file's version and
\* tile_count and with the file's names in file order; decoding a header one of
\* whose names is empty returns nothing and ends in LotHeaderParserError.
C12_WellFormedHeaderDecoded ==
    WellFormedHeader =>
        IF NoEmptyName
        THEN /\ hd_pc \notin {"error", "hung"}
             /\ hd_pc = "done" =>
                   hd_result = Some(LotHeader(hd_file.version, hd_file.names,
                                              hd_file.tile_count))
        ELSE hd_pc \notin {"done", "hung"}
-----------------------------------------------------------------------------
(* Properties of the tile definition decoder (checked under SpecTdef) *)

\* the leading number of each file name of TdefStems, 0 where there is none
NumericPrefix ==
    CASE td_stem = <<49, 95, 116>> -> 1
      [] td_stem = <<51, 95, 116>> -> 3
      [] td_stem = <<48>> -> 0
      [] td_stem = <<45, 49, 95, 116>> -> 0 - 1
      [] td_stem = <<49, 50, 95, 51>> -> 12
      [] OTHER -> 0

\* the sprite ID the two formulas give for the file decoded
FormulaId(tilesheet_number, index) ==
    IF NumericPrefix < 2 \/ td_config.legacy_id_mode
    THEN NumericPrefix * 100 * 1000 + 10000 + tilesheet_number * 1000 + index
    ELSE NumericPrefix * 512 * 512 + tilesheet_number * 512 + index

\* C13: every sprite ID generated is file_number*100*1000 + 10000 +
\* tilesheet_number*1000 + tile_index when the file number is below 2 or
\* legacy_id_mode is set, and file_number*512*512 + tilesheet_number*512 +
\* tile_index otherwise, the file number being the numeric prefix of the file name
\* or 0 without one; tile 3 of tilesheet 2 gets 112003 in a file with prefix 1 and
\* 787459 in a file with prefix 3 decoded without legacy_id_mode.
C13_SpriteIdFormulas ==
    /\ \A k \in DOMAIN td_generated :
          td_generated[k].sprite_id =
              FormulaId(td_generated[k].tilesheet_number, td_generated[k].tile_index)
    /\ (td_file = 1 /\ Len(td_generated) >= 4) =>
          /\ td_generated[4].tilesheet_number = 2
          /\ td_generated[4].tile_index = 3
          /\ td_stem = <<49, 95, 116>> => td_generated[4].sprite_id = 112003
          /\ (td_stem = <<51, 95, 116>> /\ ~td_config.legacy_id_mode)
                => td_generated[4].sprite_id = 787459
          /\ td_stem = <<116>> => td_generated[4].sprite_id = 12003

\* a file with prefix 3 was decoded without legacy_id_mode and tile 3 of its
\* tilesheet 2 got its ID by the second formula
C13_Witness ==
    /\ td_file = 1
    /\ td_stem = <<51, 95, 116>>
    /\ ~td_config.legacy_id_mode
    /\ td_pc = "done"
    /\ td_generated[4].sprite_id = 787459

\* the file decoded, as it was written
TheTdef == TdefFiles[td_file]

\* the file is whole, starts with "tdef", and its tilesheets carry pairwise
\* distinct numbers
WellFormedTdef ==
    /\ TheTdef.cut = 0
    /\ TheTdef.magic = <<116, 100, 101, 102>>
    /\ \A i, j \in DOMAIN TheTdef.sheets :
          i # j => TheTdef.sheets[i].tilesheet_number # TheTdef.sheets[j].tilesheet_number

RECURSIVE TilesDeclared(_)
TilesDeclared(sheets) ==
    IF sheets = <<>> THEN 0 ELSE Len(Head(sheets).tiles) + TilesDeclared(Tail(sheets))

\* the sprite IDs generated so far are pairwise distinct, and the dictionary parse
\* returns holds one definition per tile declared
DistinctIdsAllReturned ==
    /\ \A i, j \in DOMAIN td_generated :
          i # j => td_generated[i].sprite_id # td_generated[j].sprite_id
    /\ td_pc = "done" =>
          Cardinality(DOMAIN tile_definitions) = TilesDeclared(TheTdef.sheets)

\* the tiles one tilesheet may declare before the formula in use runs into the
\* IDs of the next tilesheet number
RoomPerSheet ==
    IF td_config.legacy_id_mode \/ NumericPrefix < 2 THEN 1000 ELSE 512

\* C14 as claimed: in a file whose tilesheets carry pairwise distinct numbers the
\* sprite IDs generated are pairwise distinct and parse returns as many
\* definitions as the file declares tiles.
C14_DistinctSheetsDistinctIds ==
    WellFormedTdef => DistinctIdsAllReturned

\* C14, amended: in a file whose tilesheets carry pairwise distinct numbers and
\* declare no more tiles each than the formula in use leaves room for (1000 under
\* the first formula, 512 under the second) the sprite IDs generated are pairwise
\* distinct and parse returns as many definitions as the file declares tiles.
C14_DistinctIdsWithinRoom ==
    (/\ WellFormedTdef
     /\ \A i \in DOMAIN TheTdef.sheets : Len(TheTdef.sheets[i].tiles) <= RoomPerSheet)
    => DistinctIdsAllReturned

\* a file whose tilesheet 0 declares 512 tiles and whose tilesheet 1 follows was
\* decoded to the end under the second formula
C14_Witness ==
    /\ WellFormedTdef
    /\ Len(TheTdef.sheets) = 2
    /\ Len(TheTdef.sheets[1].tiles) = 512
    /\ ~td_config.legacy_id_mode
    /\ NumericPrefix >= 2
    /\ td_pc = "done"
    /\ Cardinality(DOMAIN tile_definitions) = 514
-----------------------------------------------------------------------------
(* Properties of the coordinate conversions and of BoundsCoord (checked under
   SpecCoord) *)

\* a local position within a square of `size` tiles and the eight levels
LocalInRange(local, size) ==
    /\ local[1] \in 0..(size - 1)
    /\ local[2] \in 0..(size - 1)
    /\ local[3] \in 0..7

\* the caller held a coordinate of kind `first` at k, converted it to `second`
\* and converted that back
ThereAndBack(k, first, second) ==
    /\ k + 2 <= Len(co_held)
    /\ co_held[k].kind = first
    /\ co_held[k + 1].kind = second
    /\ co_held[k + 2].kind = first

\* C16: a cell c (of any sign) with a local position l, 0 <= l.x, l.y < 300 and
\* 0 <= l.z < 8, converted to a world position and back, gives (c, l) again.
C16_CellRoundTrip ==
    \A k \in DOMAIN co_held :
        (/\ ThereAndBack(k, "cell", "world")
         /\ co_held[k].local # None
         /\ LocalInRange(co_held[k].local[1], 300))
        => co_held[k + 2] = co_held[k]

\* a cell with negative indices and a local position on the last column of the
\* top level went to the world and came back
C16_Witness ==
    /\ ThereAndBack(1, "cell", "world")
    /\ co_held[1].at = <<-31, -1>>
    /\ co_held[1].local = <<<<299, 0, 7>>>>
    /\ co_held[3] = co_held[1]

\* C17: a chunk ch (of any sign) with a local position l, 0 <= l.x, l.y < 10 and
\* 0 <= l.z < 8, converted to a world position and back, gives (ch, l) again.
C17_ChunkRoundTrip ==
    \A k \in DOMAIN co_held :
        (/\ ThereAndBack(k, "chunk", "world")
         /\ co_held[k].local # None
         /\ LocalInRange(co_held[k].local[1], 10))
        => co_held[k + 2] = co_held[k]

\* a chunk with negative indices and a local position on its last column went to
\* the world and came back
C17_Witness ==
    /\ ThereAndBack(1, "chunk", "world")
    /\ co_held[1].at = <<-2, -31>>
    /\ co_held[1].local = <<<<9, 5, 7>>>>
    /\ co_held[3] = co_held[1]

\* C18: world_to_cell of any world position w, negative or not, gives a cell c
\* and a local position l with 0 <= l.x, l.y < 300 and l.z = w.z, and
\* cell_to_world(c, l) gives w again; WorldCoord(-1, -1, 0) gives CellCoord(-1, -1)
\* and LocalCellCoord(299, 299, 0).
C18_FloorDivision ==
    \A k \in DOMAIN co_held :
        (/\ k + 1 <= Len(co_held)
         /\ co_held[k].kind = "world"
         /\ co_held[k + 1].kind = "cell")
        => /\ co_held[k + 1].local # None
           /\ co_held[k + 1].local[1][1] \in 0..299
           /\ co_held[k + 1].local[1][2] \in 0..299
           /\ co_held[k + 1].local[1][3] = co_held[k].at[3]
           /\ ThereAndBack(k, "world", "cell") => co_held[k + 2] = co_held[k]
           /\ co_held[k].at = <<-1, -1, 0>> =>
                 /\ co_held[k + 1].at = <<-1, -1>>
                 /\ co_held[k + 1].local = <<<<299, 299, 0>>>>

\* WorldCoord(-1, -1, 0) was converted to its cell and back
C18_Witness ==
    /\ ThereAndBack(1, "world", "cell")
    /\ co_held[1].at = <<-1, -1, 0>>
    /\ co_held[2].at = <<-1, -1>>
    /\ co_held[3] = co_held[1]

\* a side is unset, or the cell lies on its inclusive inner side
WithinSides(bounds, coord) ==
    /\ bounds.min_x = None \/ bounds.min_x[1] <= coord[1]
    /\ bounds.max_x = None \/ coord[1] <= bounds.max_x[1]
    /\ bounds.min_y = None \/ bounds.min_y[1] <= coord[2]
    /\ bounds.max_y = None \/ coord[2] <= bounds.max_y[1]

\* both sides of a dimension are given and min > max
Inverted(min, max) == min # None /\ max # None /\ min[1] > max[1]

\* C19: contains(c) is true exactly when c lies on the inclusive inner side of
\* every side that is set, and a construction with min > max in a dimension whose
\* two sides are set raises and yields no BoundsCoord.
C19_ContainsIffWithinSides ==
    /\ (bd_asked # None /\ Len(bd_asked[1].args) = 2) =>
          (bd_asked[1].ret <=> WithinSides(bd_bounds[1], bd_asked[1].args))
    /\ (/\ bd_asked # None
        /\ Len(bd_asked[1].args) = 4
        /\ \/ Inverted(bd_asked[1].args[1], bd_asked[1].args[2])
           \/ Inverted(bd_asked[1].args[3], bd_asked[1].args[4]))
       => bd_raised /\ bd_bounds = None

\* bounds with three sides set answered TRUE for a cell on two of their edges
C19_Witness ==
    /\ bd_bounds = <<[min_x |-> <<0>>, max_x |-> <<2>>, min_y |-> <<>>, max_y |-> <<0>>]>>
    /\ bd_asked # None
    /\ bd_asked[1].args = <<2, 0>>
    /\ bd_asked[1].ret
-----------------------------------------------------------------------------
(* Properties of the walk of the lot pack decoder over a chunk (checked under
   SpecPack) *)

\* the count field read at r, 0 when the file ends before it
CountAt(r) ==
    IF r.pos \div 4 + 1 <= Len(PackFiles[pk_file])
    THEN PackFiles[pk_file][r.pos \div 4 + 1]
    ELSE 0

\* the count field read for the position that follows the one of r in the walk of
\* the same chunk
ReadNextAfter(r, q) == q.chunk = r.chunk /\ q.walk = r.walk + 1

(* C21: a position whose count field is >= 1 consumes exactly count int32 values
   after the count field, so the count field of the next position is read
   4 + 4 * count bytes further on; for count > 1 the first value is the square's
   room_id, for count == 1 the square has no room_id and the single value is
   its one tile ID (placed when the name table holds it). *)
C21_CountValuesConsumed ==
    \A r \in count_reads :
        CountAt(r) >= 1 =>
            \A q \in count_reads :
                ReadNextAfter(r, q) =>
                    LET file == PackFiles[pk_file]
                        w    == r.pos \div 4 + 1
                        gs   == cell_data[PosInCell(r.chunk, r.walk)]
                    IN  /\ q.pos = r.pos + 4 + 4 * CountAt(r)
                        /\ CountAt(r) > 1 => gs.room_id = <<file[w + 1]>>
                        /\ CountAt(r) = 1 =>
                              /\ gs.room_id = NoRoom
                              /\ InNameTable(file[w + 1]) => TilesOn(gs) = 1
\* the skip length read after the marker at r; 0 when r is no marker or the file
\* ends before the length
SkipLengthAt(r) ==
    IF CountAt(r) = -1 /\ r.pos \div 4 + 2 <= Len(PackFiles[pk_file])
    THEN PackFiles[pk_file][r.pos \div 4 + 2]
    ELSE 0

\* the walk of chunk `chunk` has gone beyond position w
WalkedBeyond(chunk, w) ==
    \/ pk_pc = "done"
    \/ pk_pc \in {"chunks", "walk"} /\ \E k \in 0..(chunk_idx - 1) : ChunkAt(k) = chunk
    \/ pk_pc = "walk" /\ current_chunk = chunk /\ walk > w

(* C22: a marker count = -1 at position p of a chunk's walk with skip_count
   k >= 1 leaves the k positions p .. p+k-1 empty, no count field is read (no
   byte consumed) for p+1 .. p+k-1, and once the walk is beyond p+k, a position
   still inside the chunk, the count field of p+k was read right behind the two
   words of the marker. *)
C22_SkipRunOfLengthK ==
    \A r \in count_reads :
        SkipLengthAt(r) >= 1 =>
            LET k == SkipLengthAt(r) IN
            /\ \A w \in r.walk..Min(r.walk + k - 1, WalkLen - 1) :
                  PosInCell(r.chunk, w) \notin DOMAIN cell_data
            /\ \A q \in count_reads :
                  q.chunk = r.chunk => q.walk \notin (r.walk + 1)..(r.walk + k - 1)
            /\ (r.walk + k < WalkLen /\ WalkedBeyond(r.chunk, r.walk + k)) =>
                  \E q \in count_reads :
                      q.chunk = r.chunk /\ q.walk = r.walk + k /\ q.pos = r.pos + 8

\* the marker with the skip length 5 at the first position was walked over: the
\* next count field was read at the 6th position, right behind the marker, and
\* the walk went on to the square with room 7
C22_Witness ==
    /\ pk_pc = "done"
    /\ pk_file = 3
    /\ \E r \in count_reads, q \in count_reads :
          /\ r.walk = 0 /\ SkipLengthAt(r) = 5
          /\ q.walk = 5 /\ q.pos = r.pos + 8
    /\ LocalCellCoord(0, 7, 0) \in DOMAIN cell_data
    /\ cell_data[LocalCellCoord(0, 7, 0)].room_id = <<7>>
\* the walk of the chunk with loop index k has read or skipped its first position
FirstPositionPassed(k) ==
    \/ k < chunk_idx
    \/ k = chunk_idx /\ pk_pc = "walk" /\ walk > 0
    \/ k = chunk_idx /\ pk_pc = "error"

(* C23: the skip counter is local to a chunk: it is 0 when a chunk's walk starts,
   whatever a skip run of the chunk before left over, and the first position of
   every chunk with an offset reads its count field at that offset. *)
C23_SkipCounterChunkLocal ==
    /\ (pk_pc = "walk" /\ walk = 0) => skip_count = 0
    /\ \A k \in DOMAIN chunk_offsets :
          FirstPositionPassed(k) =>
              \E r \in count_reads :
                  r.chunk = ChunkAt(k) /\ r.walk = 0 /\ r.pos = chunk_offsets[k]

\* chunk (0,0) asked to skip 900 positions, 100 more than it holds, and the first
\* position of chunk (0,1) was read at its offset and holds room 7
C23_Witness ==
    /\ pk_pc = "done"
    /\ pk_file = 7
    /\ \E r \in count_reads : r.chunk = ChunkCoord(0, 0) /\ SkipLengthAt(r) = WalkLen + 100
    /\ \E r \in count_reads :
          r.chunk = ChunkCoord(0, 1) /\ r.walk = 0 /\ r.pos = TableBytes + 8
    /\ LocalCellCoord(0, 10, 0) \in DOMAIN cell_data
    /\ cell_data[LocalCellCoord(0, 10, 0)].room_id = <<7>>
\* the files of PackFiles that end before a read the decoder makes, with the chunk
\* whose walk makes that read (none while the offset table is read)
FilesCutShort ==
    (6 :> ChunkCoord(0, 0)) @@ (8 :> ChunkCoord(1, 2)) @@ (9 :> NoChunk)
        @@ (11 :> ChunkCoord(2, 3))

\* parse() does not return the CellData of a file that is cut short
NeverReturnsPartial == pk_file \in DOMAIN FilesCutShort => pk_pc # "done"

(* C24 as stated: every short read, in the offset table or in a chunk body, ends
   parse() with a LotPackParserError that carries a chunk coordinate, and no
   CellData is returned. *)
C24_ShortReadCarriesChunk ==
    /\ NeverReturnsPartial
    /\ pk_pc = "error" => /\ pk_file \in DOMAIN FilesCutShort
                          /\ pk_error # NoChunk

(* C24 as amended: a short read in a chunk body (also behind an offset past the
   end of the file) ends parse() with a LotPackParserError that names the chunk
   being decoded; a short read in the offset table ends it with a
   LotPackParserError that names no chunk (current_chunk is still None); no
   CellData is returned. *)
C24_ShortReadFails ==
    /\ NeverReturnsPartial
    /\ pk_pc = "error" => /\ pk_file \in DOMAIN FilesCutShort
                          /\ pk_error = FilesCutShort[pk_file]
                          /\ TableShort(PackFiles[pk_file]) <=> pk_error = NoChunk

\* the walk of chunk (1,2), whose offset points past the end of the file, failed
\* on its first read
C24_Witness ==
    /\ pk_pc = "error"
    /\ pk_file = 8
    /\ pk_error = ChunkCoord(1, 2)
    /\ \E r \in count_reads : r.chunk = ChunkCoord(1, 2) /\ r.walk = 0
    /\ cell_data = <<>>
-----------------------------------------------------------------------------
(* Properties of parse_cell (checked under SpecCell) *)

\* both files of the call decode
BothDecode(c) == c.header.kind = "ok" /\ c.pack.kind = "ok"

(* C25: parse_cell sets cell.header and cell.data together and only when both
   the header and the pack decoded; a call in which either decode fails leaves
   both fields as they were before the call; so after any calls on a fresh cell
   the header is set iff the data is set (iff is_loaded). *)
C25_FieldsSetTogether ==
    /\ mc_cell.header # None <=> mc_cell.data # None
    /\ is_loaded(mc_cell) <=> mc_cell.header # None
    /\ \A k \in DOMAIN mc_calls :
          LET c == mc_calls[k]
          IN  /\ c.after.position = c.before.position
              /\ IF BothDecode(c)
                 THEN /\ c.after.header = Some([tile_names |-> c.header.names])
                      /\ c.after.data # None
                 ELSE /\ c.after.header = c.before.header
                      /\ c.after.data = c.before.data

\* the cell was loaded by a first call and kept its header and data through a
\* call whose pack was corrupt and a call whose header was corrupt
C25_Witness ==
    /\ Len(mc_calls) = 3
    /\ BothDecode(mc_calls[1])
    /\ mc_calls[1].header.names = <<"Floor_A", "tree">>
    /\ mc_calls[2].header = HeaderOk(<<"WALL_B">>)
    /\ mc_calls[2].pack = PackCorrupt
    /\ mc_calls[3].header = HeaderCorrupt
    /\ is_loaded(mc_cell)
    /\ mc_cell.header = Some([tile_names |-> <<"Floor_A", "tree">>])
    /\ mc_cell = mc_calls[1].after
-----------------------------------------------------------------------------
(* Properties of duplicates in a .tiles file (checked under SpecTdef) *)

\* the sprite ID generated at k was generated before in the same file
DuplicateAt(k) ==
    \E j \in 1..(k - 1) : td_generated[j].sprite_id = td_generated[k].sprite_id

\* the iteration of the tile loop that generated the last sprite ID is over and
\* the loop stands before the next tile
TileJustDecoded ==
    /\ td_generated # <<>>
    /\ td_pc = "tile"
    /\ tile_index = td_generated[Len(td_generated)].tile_index + 1

(* C26: a tile whose sprite ID is already defined in the file is not stored, but
   its property block (property_count and the name/value strings) is consumed:
   after the tile the cursor stands behind the block, where it would stand had
   the tile been accepted. *)
C26_DuplicateConsumesProperties ==
    (TileJustDecoded /\ DuplicateAt(Len(td_generated))) =>
        LET block == _parse_properties(TdefBytes, td_generated[Len(td_generated)].pos)
        IN  block.kind = "ok" => td_pos = block.pos
-----------------------------------------------------------------------------
(* Properties of the tile definition store (checked under SpecStore) *)

\* the store as call k left it
StoreAfter(k) == IF k < Len(store_calls) THEN store_calls[k + 1].before ELSE StoreState

(* C27: across the calls of process_tile_file a sprite ID that is in the store
   keeps its definition (only clear() removes it); a file whose decode fails
   adds nothing, is not marked processed and gives False; a file already
   processed changes nothing. *)
C27_FirstDefinitionWins ==
    \A k \in DOMAIN store_calls :
        LET c == store_calls[k] IN
        c.call = "process_tile_file" =>
            /\ \A id \in DOMAIN c.before.tile_definitions :
                  /\ id \in DOMAIN StoreAfter(k).tile_definitions
                  /\ StoreAfter(k).tile_definitions[id] = c.before.tile_definitions[id]
            /\ (c.file_path \notin c.before.processed /\ c.outcome.kind = "raise") =>
                  /\ StoreAfter(k) = c.before
                  /\ ~c.ret
            /\ c.file_path \in c.before.processed =>
                  /\ StoreAfter(k) = c.before
                  /\ c.ret

\* a second file brought another definition of sprite ID 2, and the first file was
\* processed again when it held that definition too: the store keeps "road"
C27_Witness ==
    /\ Len(store_calls) = 3
    /\ store_calls[1].file_path = "1_a.tiles"
    /\ store_calls[1].outcome = ParseReturns((1 :> "grass") @@ (2 :> "road"))
    /\ store_calls[2].file_path = "2_b.tiles"
    /\ store_calls[2].outcome = ParseReturns((2 :> "wall") @@ (3 :> "door"))
    /\ store_calls[3].file_path = "1_a.tiles"
    /\ store_calls[3].outcome = ParseReturns((2 :> "wall") @@ (3 :> "door"))
    /\ store_definitions = (1 :> "grass") @@ (2 :> "road") @@ (3 :> "door")
    /\ _processed_files = TilePaths
-----------------------------------------------------------------------------
(* Termination of the lot header decoder (checked under SpecHeader) *)

(* C29: decoding terminates on every finite input: read_string, and with it the
   lot header decoder, finishes with a value or an error even when the file ends
   before the newline of a name that tile_count still announces; the decoder is
   never inside a read_string call that does not return. *)
C29_DecodingTerminates == hd_pc # "hung"
-----------------------------------------------------------------------------
(* Properties of decode errors in a parallel search (checked under Spec) *)

\* a cell whose header decoder raises, or whose header names a searched tile and
\* whose pack decoder raises
CorruptCell(position, names_lower) ==
    LET entry == disk[_map_cells[CellIndex(position)].entry]
    IN  \/ entry.header.kind = "corrupt"
        \/ /\ HeaderStage(entry.header, names_lower) = "pack"
           /\ entry.pack.kind = "corrupt"

\* the futures of the current batch that as_completed has handed out
CollectedNow == {i \in DOMAIN futures : futures[i].collected}

(* C30: in a parallel search the worker function handed to the batch executor
   never raises: no future ends with an exception and no item is retried, a
   corrupt cell that was collected was attempted exactly once and is counted in
   processed_items, and failed_items is 0 for the whole search. *)
C30_DecodeErrorsAbsorbed ==
    (request # None /\ request[1].parallel /\ gen # "new") =>
        /\ failed_count = 0
        /\ \A i \in DOMAIN futures :
              futures[i].state # "raised" /\ futures[i].attempt = 0
        /\ \A p \in DOMAIN calls : calls[p] <= 1
        /\ \A i \in CollectedNow :
              /\ calls[futures[i].item] = 1
              /\ futures[i].state = "ok"
        /\ processed_count = Cardinality(FinishedItems)

\* a parallel search with retries configured ran to its end over a directory
\* with a cell whose header decoder raised and a cell whose pack decoder raised:
\* each was attempted once and both are counted as processed
C30_Witness ==
    /\ request # None
    /\ request[1].parallel
    /\ gen = "done"
    /\ config.retry_count > 1
    /\ \E p, q \in DOMAIN calls :
          /\ disk[_map_cells[CellIndex(p)].entry].header.kind = "corrupt"
          /\ disk[_map_cells[CellIndex(q)].entry].header.kind = "ok"
          /\ CorruptCell(q, tile_names_lower)
          /\ calls[p] = 1
          /\ calls[q] = 1
    /\ processed_count = Len(items)
    /\ failed_count = 0

=============================================================================
